---- MODULE Spec2Model ----
(***************************************************************************)
(* The research-brief pipeline of backend/app: the LangGraph workflow of   *)
(* graph.py driving the nodes of nodes.py over one GraphState (state.py),  *)
(* with the search tool of tools.py and the schemas of schemas.py.         *)
(*                                                                         *)
(* One behaviour is one run of research_graph.astream(initial_state).      *)
(* The language model and the search service are the environment: every    *)
(* outcome they can produce is an input chosen with \E.                     *)
(*                                                                         *)
(* Conventions.  An Optional value is None (the empty tuple) or Some(v)    *)
(* (the one-element tuple).  A float score is kept in hundredths           *)
(* (0.7 is 70).  A node returns a partial update (a record holding only    *)
(* the keys it writes), which the engine merges into the state.            *)
(* FinalBrief.synthesis and the timestamps are left out: no stage reads    *)
(* them and nothing below is stated about them.                            *)
(***************************************************************************)
EXTENDS Integers, Sequences, FiniteSets, TLC

VARIABLES
    state,      \* the GraphState dict threaded through the nodes
    pc,         \* the node the engine runs next ("__start__" .. "__end__")
    executed,   \* names of the nodes that have run, in order (the event stream)
    llm_calls,  \* the model calls made so far, in order
    search_calls \* the queries handed to search_tool.invoke so far, in order

vars == <<state, pc, executed, llm_calls, search_calls>>

----------------------------------------------------------------------------
(* Bounds of the model *)

\* length of the history list handed to a run that has one
MaxHistory == 2
\* most hits the search service returns in one run, all queries together
MaxHits == 2
\* the same, for the runs of first requests (FreshSpec)
MaxSources == 3

----------------------------------------------------------------------------
(* Python helpers *)

None == <<>>
Some(v) == <<v>>

\* s[:n]
Truncate(s, n) == IF Len(s) > n THEN SubSeq(s, 1, n) ELSE s

\* t in s, for strings
Contains(s, t) ==
    \E i \in 1..(Len(s) - Len(t) + 1) : SubSeq(s, i, i + Len(t) - 1) = t

\* len(s.split()): the number of maximal runs of non-blank characters
WordCount(s) ==
    Cardinality({i \in 1..Len(s) :
        /\ SubSeq(s, i, i) /= " "
        /\ (i = 1 \/ SubSeq(s, i - 1, i - 1) = " ")})

\* str(n) for the small counts that are formatted into texts
IntToStr(n) ==
    CASE n = 0 -> "0" [] n = 1 -> "1" [] n = 2 -> "2" [] n = 3 -> "3"
      [] n = 4 -> "4" [] n = 5 -> "5" [] n = 6 -> "6" [] OTHER -> "many"

\* the state after the engine merged a node's partial update into it
Merge(st, update) ==
    [k \in DOMAIN st |-> IF k \in DOMAIN update THEN update[k] ELSE st[k]]

----------------------------------------------------------------------------
(* schemas.py *)

\* ResearchPlan: queries min_length=1, expected_sources ge=1 le=15
ResearchPlanValid(p) ==
    /\ Len(p.queries) >= 1
    /\ p.expected_sources >= 1
    /\ p.expected_sources <= 15

\* SourceSummary: relevance_score ge=0.0 le=1.0
SourceSummaryValid(s) ==
    /\ s.relevance_score >= 0
    /\ s.relevance_score <= 100

\* FinalBrief: executive_summary min_length=50, references: List[SourceSummary]
FinalBriefValid(b) ==
    /\ Len(b.executive_summary) >= 50
    /\ \A i \in 1..Len(b.references) : SourceSummaryValid(b.references[i])

----------------------------------------------------------------------------
(* schemas.py: the dict form of the models.  A model object is a record of *)
(* its fields; a Python dict is the list of its items in insertion order,   *)
(* so that a dump is not the object it was taken from.  The fields          *)
(* synthesis and generated_at of FinalBrief are left out throughout.        *)

\* a Python dict
Dict(items) == [items |-> items]

\* hasattr(x, name): a dict has methods such as items, and none of its keys
hasattr(x, name) == name \in DOMAIN x

\* the value of key in d wrapped in Some, None if d has no such key
Lookup(d, key) ==
    LET at == {i \in 1..Len(d.items) : d.items[i][1] = key}
    IN  IF at = {} THEN None ELSE Some(d.items[CHOOSE i \in at : TRUE][2])

\* d[key] = value
SetItem(d, key, value) ==
    IF Lookup(d, key) = None
    THEN Dict(Append(d.items, <<key, value>>))
    ELSE Dict([i \in 1..Len(d.items) |->
                  IF d.items[i][1] = key THEN <<key, value>> ELSE d.items[i]])

ResearchPlanFields == <<"queries", "rationale", "expected_sources", "focus_areas">>

SourceSummaryFields ==
    <<"url", "title", "summary", "relevance_score", "key_points",
      "source_type", "publication_date", "author">>

ContextSummaryFields ==
    <<"previous_topics", "key_findings", "user_preferences", "continuity_notes">>

\* model_dump leaving out the optional fields that are None
model_dump_exclude_none(fields, m) ==
    LET kept == SelectSeq(fields,
                    LAMBDA f : f \notin {"publication_date", "author"}
                               \/ m[f] /= None)
    IN  Dict([i \in 1..Len(kept) |-> <<kept[i], m[kept[i]]>>])

\* BaseModel.model_dump of a model none of whose fields holds a model
model_dump(fields, m) ==
    Dict([i \in 1..Len(fields) |-> <<fields[i], m[fields[i]]>>])

\* FinalBrief.model_dump: the references and the context are dumped too
FinalBrief_model_dump(b) ==
    Dict(<< <<"topic", b.topic>>,
            <<"executive_summary", b.executive_summary>>,
            <<"key_insights", b.key_insights>>,
            <<"references", [i \in 1..Len(b.references) |->
                                model_dump(SourceSummaryFields, b.references[i])]>>,
            <<"context_used", IF b.context_used = None THEN None
                              ELSE model_dump(ContextSummaryFields, b.context_used[1])>>,
            <<"metadata", b.metadata>> >>)

\* ResearchPlan(**d): None when validation fails (a field without default
\* has no key in d, or a constraint is violated).  Keys that name no field
\* are ignored.
ResearchPlan(d) ==
    LET queries == Lookup(d, "queries")
        rationale == Lookup(d, "rationale")
        expected_sources == Lookup(d, "expected_sources")
        focus_areas == Lookup(d, "focus_areas")
    IN  IF None \in {queries, rationale, expected_sources, focus_areas}
        THEN None
        ELSE LET p == [queries |-> queries[1],
                       rationale |-> rationale[1],
                       expected_sources |-> expected_sources[1],
                       focus_areas |-> focus_areas[1]]
             IN  IF ResearchPlanValid(p) THEN Some(p) ELSE None

\* SourceSummary(**d): publication_date and author may be None, but have no
\* default, so their keys are required as well
SourceSummary(d) ==
    LET url == Lookup(d, "url")
        title == Lookup(d, "title")
        summary == Lookup(d, "summary")
        relevance_score == Lookup(d, "relevance_score")
        key_points == Lookup(d, "key_points")
        source_type == Lookup(d, "source_type")
        publication_date == Lookup(d, "publication_date")
        author == Lookup(d, "author")
    IN  IF None \in {url, title, summary, relevance_score, key_points,
                     source_type, publication_date, author}
        THEN None
        ELSE LET s == [url |-> url[1],
                       title |-> title[1],
                       summary |-> summary[1],
                       relevance_score |-> relevance_score[1],
                       key_points |-> key_points[1],
                       source_type |-> source_type[1],
                       publication_date |-> publication_date[1],
                       author |-> author[1]]
             IN  IF SourceSummaryValid(s) THEN Some(s) ELSE None

\* ContextSummary(**d): user_preferences defaults to the empty dict
ContextSummary(d) ==
    LET previous_topics == Lookup(d, "previous_topics")
        key_findings == Lookup(d, "key_findings")
        user_preferences == Lookup(d, "user_preferences")
        continuity_notes == Lookup(d, "continuity_notes")
    IN  IF None \in {previous_topics, key_findings, continuity_notes}
        THEN None
        ELSE Some([previous_topics |-> previous_topics[1],
                   key_findings |-> key_findings[1],
                   user_preferences |->
                       IF user_preferences = None THEN <<>>
                       ELSE user_preferences[1],
                   continuity_notes |-> continuity_notes[1]])

\* FinalBrief(**d) and FinalBrief.model_validate(d): context_used defaults to
\* None and metadata to the empty dict; the dicts under references and
\* context_used are validated into models
FinalBrief(d) ==
    LET topic == Lookup(d, "topic")
        executive_summary == Lookup(d, "executive_summary")
        key_insights == Lookup(d, "key_insights")
        refs == Lookup(d, "references")
        ctx == Lookup(d, "context_used")
        metadata == Lookup(d, "metadata")
    IN  IF None \in {topic, executive_summary, key_insights, refs}
        THEN None
        ELSE LET references == [i \in 1..Len(refs[1]) |-> SourceSummary(refs[1][i])]
                 context_used ==
                     IF ctx = None \/ ctx[1] = None THEN Some(None)
                     ELSE IF ContextSummary(ctx[1]) = None THEN None
                     ELSE Some(ContextSummary(ctx[1]))
             IN  IF \/ \E i \in 1..Len(references) : references[i] = None
                    \/ context_used = None
                    \/ Len(executive_summary[1]) < 50
                 THEN None
                 ELSE Some([topic |-> topic[1],
                            executive_summary |-> executive_summary[1],
                            key_insights |-> key_insights[1],
                            references |->
                                [i \in 1..Len(references) |-> references[i][1]],
                            context_used |-> context_used[1],
                            metadata |-> IF metadata = None THEN <<>>
                                         ELSE metadata[1]])

\* brief.model_dump_json(): the text of the dump.  Every value a brief holds
\* here is a string, a number, a list, a dict or None, which JSON writes and
\* reads back as they are.
model_dump_json(b) == [json |-> FinalBrief_model_dump(b)]

\* json.loads
json_loads(text) == text.json

----------------------------------------------------------------------------
(* The inputs of a run *)

Topics == {"ai chips", "solar power"}

Depths == {"shallow", "moderate", "deep"}

\* the briefs a user's history is made of, as storage hands them over
StoredBriefs ==
    << [topic |-> "wind farms",
        executive_summary |-> "Wind farms were reviewed across five regions with stable output.",
        key_insights |-> <<"offshore grows", "costs fall">>,
        references |-> <<>>, context_used |-> None, metadata |-> <<>>],
       [topic |-> "grid storage",
        executive_summary |-> "Grid storage was reviewed with attention to battery lifetime costs.",
        key_insights |-> <<"lithium leads">>,
        references |-> <<>>, context_used |-> None, metadata |-> <<>>],
       [topic |-> "heat pumps",
        executive_summary |-> "Heat pumps were reviewed for cold climates and retrofit economics.",
        key_insights |-> <<"retrofits pay back">>,
        references |-> <<>>, context_used |-> None, metadata |-> <<>>],
       [topic |-> "tidal power",
        executive_summary |-> "Tidal power was reviewed with a focus on turbine maintenance needs.",
        key_insights |-> <<"niche output">>,
        references |-> <<>>, context_used |-> None, metadata |-> <<>>] >>

\* a user has no stored brief yet, or the MaxHistory oldest of StoredBriefs
Histories == {<<>>, SubSeq(StoredBriefs, 1, MaxHistory)}

\* the execution_metadata of a run: what main.py builds for a request (with
\* the trace id it drew), and the empty dict cli.py passes
ExecutionMetadatas ==
    { [trace_id |-> "trace-1", start_time |-> "t0", request_id |-> "request-1",
       llm_provider |-> "Azure OpenAI"],
      <<>> }

\* the state main.py and cli.py build for a request
InitialState(topic, depth, follow_up, history, execution_metadata) ==
    [topic |-> topic,
     user_id |-> "user-1",
     depth |-> depth,
     is_follow_up |-> follow_up,
     additional_context |-> None,
     history |-> history,
     context_summary |-> None,
     plan |-> None,
     search_results |-> None,
     fetched_content |-> None,
     summaries |-> None,
     final_brief |-> None,
     error |-> None,
     execution_metadata |-> execution_metadata]

----------------------------------------------------------------------------
(* The language-model collaborator *)

\* what create_structured_llm(...) and structured_llm.invoke(...) can do:
\* the construction raises or returns a runnable; the invocation raises,
\* returns null, or returns a value (which may violate the schema when the
\* runnable does not validate, as with the mocks of the tests)
CreateOutcomes == {"ok", "raise"}

Ok == [kind |-> "ok"]
Raised == [kind |-> "raise"]
Null == [kind |-> "null"]
Value(v) == [kind |-> "value", value |-> v]

\* str(e) of the exceptions a node formats into its error text
ConstructionError == "model unavailable"
NullError == "'NoneType' object has no attribute 'model_dump'"
ValidationError == "validation error"

\* one entry of llm_calls: the node, "create" or "invoke", and what the call did
Call(node, op, result) == [node |-> node, op |-> op, result |-> result]

\* state.get("execution_metadata", {}).get("trace_id", "unknown")
trace_id(st) ==
    IF "trace_id" \in DOMAIN st.execution_metadata
    THEN st.execution_metadata.trace_id ELSE "unknown"

\* the RunnableConfig handed to an invoke call (its timestamp left out)
create_traceable_config(trace, node_name) ==
    [tags |-> <<node_name, "research-brief">>,
     metadata |-> [trace_id |-> trace, node |-> node_name]]

\* the entry of llm_calls for an invoke call that is given a traceable config
TracedCall(node, result, st) ==
    [node |-> node, op |-> "invoke", result |-> result,
     config |-> create_traceable_config(trace_id(st), node)]

----------------------------------------------------------------------------
(* nodes.py: context_summarizer *)

RECURSIVE Flatten(_)
\* [x for xs in seqs for x in xs]
Flatten(seqs) ==
    IF seqs = <<>> THEN <<>> ELSE Head(seqs) \o Flatten(Tail(seqs))

\* the ContextSummary values the model may return
ModelContextSummaries ==
    { [previous_topics |-> <<"wind farms">>,
       key_findings |-> <<"offshore grows">>,
       user_preferences |-> <<>>,
       continuity_notes |-> "builds on the earlier wind research"] }

\* state['history'][-3:], the briefs the prompt is built from
history_slice(st) ==
    SubSeq(st.history,
           IF Len(st.history) > 3 THEN Len(st.history) - 2 ELSE 1,
           Len(st.history))

\* str(e) when brief.topic is read from a history entry that is a dict
AttributeError == "'dict' object has no attribute 'topic'"

\* ContextSummaryFallback built from the most recent brief only
ContextSummaryFallback_recent(st) ==
    [previous_topics |-> <<st.history[Len(st.history)].topic>>,
     key_findings |-> st.history[Len(st.history)].key_insights,
     user_preferences |-> <<>>,
     continuity_notes |-> "Previous research context available"]

\* the ContextSummary built when the invocation raises
ContextSummaryFallback(st) ==
    [previous_topics |-> [i \in 1..Len(st.history) |-> st.history[i].topic],
     key_findings |->
         Flatten([i \in 1..Len(st.history) |-> st.history[i].key_insights]),
     user_preferences |-> <<>>,
     continuity_notes |-> "Previous research context available"]

context_summarizer(st, create, inv) ==
    IF st.history = <<>> \/ ~st.is_follow_up
    THEN [update |-> [context_summary |-> None], calls |-> <<>>]
    ELSE IF ~hasattr(Head(history_slice(st)), "topic")
    THEN \* brief.topic while history_text is built: the outer handler
         [update |-> [error |-> Some("Context summarization failed: " \o AttributeError)],
          calls |-> <<>>]
    ELSE IF create = "raise"
    THEN [update |-> [error |-> Some("Context summarization failed: " \o ConstructionError)],
          calls |-> <<Call("context_summarizer", "create", Raised)>>]
    ELSE LET calls == <<Call("context_summarizer", "create", Ok),
                        TracedCall("context_summarizer", inv, st)>>
         IN  CASE inv.kind = "raise" ->
                    [update |-> [context_summary |-> Some(ContextSummaryFallback(st))],
                     calls |-> calls]
               [] inv.kind = "null" ->
                    \* context_summary.model_dump() on None: the outer handler
                    [update |-> [error |-> Some("Context summarization failed: " \o NullError)],
                     calls |-> calls]
               [] OTHER ->
                    [update |-> [context_summary |-> Some(inv.value)],
                     calls |-> calls]

----------------------------------------------------------------------------
(* nodes.py: planner *)

\* depth_to_sources ignoring the depth
depth_to_sources_flat(depth) == 5

\* depth_to_sources.get(depth, 5)
depth_to_sources(depth) ==
    CASE depth = "shallow" -> 3
      [] depth = "moderate" -> 5
      [] depth = "deep" -> 8
      [] OTHER -> 5

\* the ResearchPlan values the model may return; the last two violate the schema
ModelPlans ==
    { [queries |-> <<"chip supply", "chip demand">>,
       rationale |-> "two angles", expected_sources |-> 5,
       focus_areas |-> <<"supply">>],
      [queries |-> <<>>,
       rationale |-> "nothing to search", expected_sources |-> 5,
       focus_areas |-> <<>>],
      [queries |-> <<"chip supply">>,
       rationale |-> "too many sources", expected_sources |-> 16,
       focus_areas |-> <<"supply">>] }

\* the plan built when the invocation fails
PlanFallback(st) ==
    [queries |-> <<st.topic \o " research", st.topic \o " analysis",
                   st.topic \o " trends">>,
     rationale |-> "Basic search queries for the topic",
     expected_sources |-> depth_to_sources(st.depth),
     focus_areas |-> <<st.topic>>]

\* planner reporting a raised invocation as the pipeline error
planner_propagating(st, create, inv) ==
    IF create = "raise"
    THEN [update |-> [error |-> Some("Research planning failed: " \o ConstructionError)],
          calls |-> <<Call("planner", "create", Raised)>>]
    ELSE LET calls == <<Call("planner", "create", Ok),
                        TracedCall("planner", inv, st)>>
         IN  CASE inv.kind = "null" ->
                    [update |-> [plan |-> Some(PlanFallback(st))], calls |-> calls]
               [] inv.kind = "value" /\ ResearchPlanValid(inv.value) ->
                    [update |-> [plan |-> Some(inv.value)], calls |-> calls]
               [] OTHER ->
                    [update |-> [error |-> Some("Research planning failed: " \o ValidationError)],
                     calls |-> calls]

\* planner resetting error whenever it stores a plan
planner_clearing(st, create, inv) ==
    IF create = "raise"
    THEN [update |-> [error |-> Some("Research planning failed: " \o ConstructionError)],
          calls |-> <<Call("planner", "create", Raised)>>]
    ELSE LET calls == <<Call("planner", "create", Ok),
                        TracedCall("planner", inv, st)>>
         IN  CASE inv.kind \in {"raise", "null"} ->
                    [update |-> [plan |-> Some(PlanFallback(st)), error |-> None],
                     calls |-> calls]
               [] inv.kind = "value" /\ ResearchPlanValid(inv.value) ->
                    [update |-> [plan |-> Some(inv.value), error |-> None],
                     calls |-> calls]
               [] OTHER ->
                    [update |-> [error |-> Some("Research planning failed: " \o ValidationError)],
                     calls |-> calls]

\* planner issuing the invocation a second time when it raised
planner_retrying(st, create, inv) ==
    IF create = "raise"
    THEN [update |-> [error |-> Some("Research planning failed: " \o ConstructionError)],
          calls |-> <<Call("planner", "create", Raised)>>]
    ELSE LET calls == <<Call("planner", "create", Ok),
                        TracedCall("planner", inv, st)>>
         IN  CASE inv.kind = "raise" ->
                    [update |-> [plan |-> Some(PlanFallback(st))],
                     calls |-> Append(calls, TracedCall("planner", inv, st))]
               [] inv.kind = "null" ->
                    [update |-> [plan |-> Some(PlanFallback(st))], calls |-> calls]
               [] inv.kind = "value" /\ ResearchPlanValid(inv.value) ->
                    [update |-> [plan |-> Some(inv.value)], calls |-> calls]
               [] OTHER ->
                    [update |-> [error |-> Some("Research planning failed: " \o ValidationError)],
                     calls |-> calls]

\* planner storing whatever value the model returned
planner_unvalidated(st, create, inv) ==
    IF create = "raise"
    THEN [update |-> [error |-> Some("Research planning failed: " \o ConstructionError)],
          calls |-> <<Call("planner", "create", Raised)>>]
    ELSE LET calls == <<Call("planner", "create", Ok),
                        TracedCall("planner", inv, st)>>
         IN  CASE inv.kind \in {"raise", "null"} ->
                    [update |-> [plan |-> Some(PlanFallback(st))], calls |-> calls]
               [] OTHER ->
                    [update |-> [plan |-> Some(inv.value)], calls |-> calls]

planner(st, create, inv) ==
    IF create = "raise"
    THEN [update |-> [error |-> Some("Research planning failed: " \o ConstructionError)],
          calls |-> <<Call("planner", "create", Raised)>>]
    ELSE LET calls == <<Call("planner", "create", Ok),
                        TracedCall("planner", inv, st)>>
         IN  CASE inv.kind \in {"raise", "null"} ->
                    \* a null result fails at len(plan.queries), inside the inner try
                    [update |-> [plan |-> Some(PlanFallback(st))], calls |-> calls]
               [] inv.kind = "value" /\ ResearchPlanValid(inv.value) ->
                    [update |-> [plan |-> Some(inv.value)], calls |-> calls]
               [] OTHER ->
                    \* ResearchPlan(**plan_dict) rejects the value: the outer handler
                    [update |-> [error |-> Some("Research planning failed: " \o ValidationError)],
                     calls |-> calls]

----------------------------------------------------------------------------
(* tools.py: SearchTool *)

ContentOk ==
    "new chip fabs open in asia and europe as demand for ai parts grows by ten percent a year in all"

ContentLong ==
    "solar output rose in every region last year and the trend is set to go on as new plants come online while older coal units retire and grid operators add storage to balance supply and demand across seasons with more data expected soon from the agencies"

ContentShort ==
    "panel prices fell again this year while storage costs stayed flat in most of the large markets we track now"

\* the result dicts the search service may return
SearchHits ==
    { [url |-> "https://a.example/one", title |-> "One", content |-> ContentOk],
      [url |-> "https://b.example/two", title |-> "Two", content |-> ContentLong],
      [url |-> "https://c.example/three", title |-> "Three", content |-> ContentShort],
      [url |-> "ftp://d.example/four", title |-> "Four", content |-> ContentOk] }

\* further result dicts, for the runs of the search tool on its own: a blocked
\* marker inside an https url, a url without host, and no url at all
OddHits ==
    { [url |-> "https://e.example/data:set", title |-> "Five", content |-> ContentOk],
      [url |-> "https:///six", title |-> "Six", content |-> ContentOk],
      [url |-> "", title |-> "Seven", content |-> ContentOk] }

ToolHits == SearchHits \cup OddHits

\* position of the first occurrence of t in s at or after position from, 0 if none
Find(s, t, from) ==
    LET hits == {i \in from..(Len(s) - Len(t) + 1) : SubSeq(s, i, i + Len(t) - 1) = t}
    IN  IF hits = {} THEN 0 ELSE CHOOSE i \in hits : \A j \in hits : i <= j

\* urlparse(url), for lower-case urls: scheme before the first ":", netloc between
\* the "//" that follows it and the next "/"
urlparse(url) ==
    LET colon == Find(url, ":", 1)
        has_netloc == colon > 0 /\ SubSeq(url, colon + 1, colon + 2) = "//"
        slash == Find(url, "/", colon + 3)
    IN  [scheme |-> IF colon > 0 THEN SubSeq(url, 1, colon - 1) ELSE "",
         netloc |-> IF ~has_netloc THEN ""
                    ELSE IF slash = 0 THEN SubSeq(url, colon + 3, Len(url))
                    ELSE SubSeq(url, colon + 3, slash - 1)]

is_valid_url(url) ==
    LET parsed == urlparse(url)
    IN  /\ parsed.scheme \in {"http", "https"}
        /\ parsed.netloc /= ""
        /\ ~\E blocked \in {"javascript:", "data:", "file:", "ftp:"} :
               Contains(url, blocked)

\* the content dict built from one result dict
ContentOf(result) ==
    [title |-> result.title,
     content |-> result.content,
     url |-> result.url,
     word_count |-> WordCount(result.content)]

\* Kept without the word-count threshold
Kept_any_length(result) ==
    /\ result.url /= ""
    /\ is_valid_url(result.url)

\* whether a result dict is appended to all_results
Kept(result) ==
    /\ result.url /= ""
    /\ is_valid_url(result.url)
    /\ WordCount(result.content) > 20

\* Kept, evaluated once per result dict
KeptHits == {h \in ToolHits : Kept(h)}

\* ContentOf, evaluated once per result dict
ContentOfHit == [h \in ToolHits |-> ContentOf(h)]

RECURSIVE ConvertResults(_)
\* the loop over search_results of one query
ConvertResults(results) ==
    IF results = <<>> THEN <<>>
    ELSE (IF Head(results) \in KeptHits THEN <<ContentOfHit[Head(results)]>> ELSE <<>>)
         \o ConvertResults(Tail(results))

\* what one turn of the loop over the queries appends to all_results, given
\* what search_tool.invoke did
QueryResults(r) ==
    IF r.kind = "results" THEN ConvertResults(r.results)
    ELSE <<>>   \* the call raised, or an unexpected format: continue

\* NextQuery giving up on the remaining queries once a call raised
NextQuery_aborting(i, n, r) == IF r.kind = "raise" THEN n + 1 ELSE i + 1

\* the index of the query the loop takes after query i of n
NextQuery(i, n, r) == i + 1

RECURSIVE SearchTool_search_and_fetch(_, _)
\* SearchTool.search_and_fetch(queries); responses[i] is what
\* search_tool.invoke does for queries[i]
SearchTool_search_and_fetch(queries, responses) ==
    IF queries = <<>> THEN <<>>
    ELSE QueryResults(Head(responses))
         \o SearchTool_search_and_fetch(Tail(queries), Tail(responses))

RECURSIVE SearchTool_invocations(_, _)
\* the queries SearchTool.search_and_fetch hands to search_tool.invoke: the
\* loop takes each query once, whatever the call before it did
SearchTool_invocations(queries, responses) ==
    IF queries = <<>> THEN <<>>
    ELSE <<Head(queries)>>
         \o SearchTool_invocations(Tail(queries), Tail(responses))

----------------------------------------------------------------------------
(* nodes.py: search_and_fetch *)

\* search_and_fetch going to the search tool without looking for a plan
search_and_fetch_unguarded(st, responses) ==
    LET fetched_content ==
            IF st.plan = None THEN <<>>
            ELSE SearchTool_search_and_fetch(st.plan[1].queries, responses)
    IN  IF fetched_content = <<>>
        THEN [error |-> Some("No content could be fetched from search results")]
        ELSE [search_results |-> Some(fetched_content),
              fetched_content |-> Some(fetched_content)]

\* the queries search_and_fetch hands to the search tool
search_and_fetch_calls(st, responses) ==
    IF st.plan = None THEN <<>>
    ELSE SearchTool_invocations(st.plan[1].queries, responses)

search_and_fetch(st, responses) ==
    IF st.plan = None
    THEN [error |-> Some("No research plan available")]
    ELSE LET fetched_content ==
                 SearchTool_search_and_fetch(st.plan[1].queries, responses)
         IN  IF fetched_content = <<>>
             THEN [error |-> Some("No content could be fetched from search results")]
             ELSE [search_results |-> Some(fetched_content),
                   fetched_content |-> Some(fetched_content)]

----------------------------------------------------------------------------
(* nodes.py: per_source_summarizer *)

\* the SourceSummary values the model may return whatever the source: both
\* name the same url; the second violates the schema
ModelSummaries ==
    { [url |-> "https://a.example/one", title |-> "Model title",
       summary |-> "model summary",
       relevance_score |-> r, key_points |-> <<"growth of ten percent">>,
       source_type |-> "article", publication_date |-> None, author |-> None]
      : r \in {90, 150} }

\* the summary built when the invocation for a source raises
SourceFallback(content) ==
    LET content_text == Truncate(content.content, 1000)
    IN  [url |-> content.url,
         title |-> content.title,
         summary |-> content_text \o "...",
         relevance_score |-> 70,
         key_points |->
             << IF Len(content_text) > 200
                  THEN Truncate(content_text, 200) \o "..." ELSE content_text,
                "Source provides relevant information on the topic",
                "Content includes specific details and insights" >>,
         source_type |-> "web page",
         publication_date |-> None,
         author |-> None]

\* the summary built when anything else fails while a source is processed
SourceDegraded(content, e) ==
    [url |-> content.url,
     title |-> content.title,
     summary |-> "Error processing source: " \o e,
     relevance_score |-> 0,
     key_points |-> <<"Error processing source">>,
     source_type |-> "web page",
     publication_date |-> None,
     author |-> None]

\* summarize_source keeping any value the model returned
summarize_source_unvalidated(content, inv) ==
    CASE inv.kind = "raise" -> SourceFallback(content)
      [] inv.kind = "null" -> SourceDegraded(content, NullError)
      [] OTHER -> inv.value

\* the body of the loop: the summary appended for one source
summarize_source(content, inv) ==
    CASE inv.kind = "raise" -> SourceFallback(content)
      [] inv.kind = "null" -> SourceDegraded(content, NullError)
      [] inv.kind = "value" /\ SourceSummaryValid(inv.value) -> inv.value
      [] OTHER -> SourceDegraded(content, ValidationError)

\* the calls per_source_summarizer makes once the runnable is built
per_source_calls(invs) ==
    <<Call("per_source_summarizer", "create", Ok)>> \o
    [i \in 1..Len(invs) |-> Call("per_source_summarizer", "invoke", invs[i])]

\* per_source_summarizer going on to the model without looking for content
per_source_summarizer_unguarded(st, create, invs) ==
    IF create = "raise"
    THEN [update |-> [error |-> Some("Per-source summarization failed: " \o ConstructionError)],
          calls |-> <<Call("per_source_summarizer", "create", Raised)>>]
    ELSE LET fetched_content ==
                 IF st.fetched_content = None THEN <<>> ELSE st.fetched_content[1]
         IN  [update |->
                  [summaries |-> Some([i \in 1..Len(fetched_content) |->
                       summarize_source(fetched_content[i], invs[i])])],
              calls |-> per_source_calls(invs)]

\* per_source_summarizer leaving out the sources it could only degrade
per_source_summarizer_skipping(st, create, invs) ==
    IF st.fetched_content = None \/ st.fetched_content[1] = <<>>
    THEN [update |-> [error |-> Some("No content available for summarization")],
          calls |-> <<>>]
    ELSE IF create = "raise"
    THEN [update |-> [error |-> Some("Per-source summarization failed: " \o ConstructionError)],
          calls |-> <<Call("per_source_summarizer", "create", Raised)>>]
    ELSE LET fetched_content == st.fetched_content[1]
             all == [i \in 1..Len(fetched_content) |->
                        summarize_source(fetched_content[i], invs[i])]
         IN  [update |->
                  [summaries |-> Some(SelectSeq(all,
                                     LAMBDA x : x.relevance_score /= 0))],
              calls |-> per_source_calls(invs)]

\* per_source_summarizer giving up on all sources when one invocation raises
per_source_summarizer_aborting(st, create, invs) ==
    IF st.fetched_content = None \/ st.fetched_content[1] = <<>>
    THEN [update |-> [error |-> Some("No content available for summarization")],
          calls |-> <<>>]
    ELSE IF create = "raise"
    THEN [update |-> [error |-> Some("Per-source summarization failed: " \o ConstructionError)],
          calls |-> <<Call("per_source_summarizer", "create", Raised)>>]
    ELSE IF \E i \in 1..Len(invs) : invs[i].kind = "raise"
    THEN [update |-> [error |-> Some("Per-source summarization failed: invocation failed")],
          calls |-> per_source_calls(invs)]
    ELSE LET fetched_content == st.fetched_content[1]
         IN  [update |->
                  [summaries |-> Some([i \in 1..Len(fetched_content) |->
                       summarize_source(fetched_content[i], invs[i])])],
              calls |-> per_source_calls(invs)]

per_source_summarizer(st, create, invs) ==
    IF st.fetched_content = None \/ st.fetched_content[1] = <<>>
    THEN [update |-> [error |-> Some("No content available for summarization")],
          calls |-> <<>>]
    ELSE IF create = "raise"
    THEN [update |-> [error |-> Some("Per-source summarization failed: " \o ConstructionError)],
          calls |-> <<Call("per_source_summarizer", "create", Raised)>>]
    ELSE LET fetched_content == st.fetched_content[1]
         IN  [update |->
                  [summaries |-> Some([i \in 1..Len(fetched_content) |->
                       summarize_source(fetched_content[i], invs[i])])],
              calls |-> per_source_calls(invs)]

----------------------------------------------------------------------------
(* nodes.py: synthesizer *)

SummaryLong ==
    "Chip supply tightened while demand for accelerators kept growing in every region."

\* the FinalBrief values the model may return whatever the run: one per topic
\* without references, one whose summary is too short for the schema, one
\* with a reference whose score is out of range
ModelBriefs ==
    { [topic |-> t, executive_summary |-> SummaryLong,
       key_insights |-> <<"supply is tight">>,
       references |-> <<>>, context_used |-> None, metadata |-> <<>>]
      : t \in Topics }
    \cup
    { [topic |-> "ai chips", executive_summary |-> "Too short.",
       key_insights |-> <<"supply is tight">>,
       references |-> <<>>, context_used |-> None, metadata |-> <<>>],
      [topic |-> "ai chips", executive_summary |-> SummaryLong,
       key_insights |-> <<"supply is tight">>,
       references |->
           << [url |-> "https://a.example/one", title |-> "Model title",
               summary |-> "model summary", relevance_score |-> 150,
               key_points |-> <<"growth of ten percent">>,
               source_type |-> "article", publication_date |-> None,
               author |-> None] >>,
       context_used |-> None, metadata |-> <<>>] }

\* the FinalBrief of a model that follows its prompt: the topic asked for, and
\* the summaries it was given as references
PromptedBrief(st) ==
    [topic |-> st.topic, executive_summary |-> SummaryLong,
     key_insights |-> <<"supply is tight">>,
     references |-> st.summaries[1],
     context_used |-> None, metadata |-> <<>>]

\* the FinalBrief values the model may return in a run
ModelBriefsFor(st) ==
    ModelBriefs \cup
    (IF st.summaries = None THEN {} ELSE {PromptedBrief(st)})

\* BriefFallback citing only the summaries that have a positive score
BriefFallback_relevant(st) ==
    LET summaries == SelectSeq(st.summaries[1], LAMBDA x : x.relevance_score > 0)
        n == IntToStr(Len(summaries))
    IN  [topic |-> st.topic,
         executive_summary |->
             "Comprehensive analysis of " \o st.topic \o " based on " \o n \o
             " carefully selected sources. The research reveals key trends, challenges, and opportunities in this domain.",
         key_insights |-> <<"Research analyzed " \o n \o " high-quality sources on " \o st.topic>>,
         references |-> summaries,
         context_used |-> st.context_summary,
         metadata |-> [generated_at |-> "utcnow", source_count |-> Len(summaries)]]

\* BriefFallback with a one-line summary
BriefFallback_terse(st) ==
    [topic |-> st.topic,
     executive_summary |-> "Analysis of " \o st.topic,
     key_insights |-> <<"Research analyzed sources on " \o st.topic>>,
     references |-> st.summaries[1],
     context_used |-> st.context_summary,
     metadata |-> [generated_at |-> "utcnow", source_count |-> Len(st.summaries[1])]]

\* the brief built when the invocation raises
BriefFallback(st) ==
    LET summaries == st.summaries[1]
        n == IntToStr(Len(summaries))
    IN  [topic |-> st.topic,
         executive_summary |->
             "Comprehensive analysis of " \o st.topic \o " based on " \o n \o
             " carefully selected sources. The research reveals key trends, challenges, and opportunities in this domain. The analysis covers multiple perspectives and provides actionable insights for stakeholders.",
         key_insights |->
             << "Research analyzed " \o n \o " high-quality sources on " \o st.topic,
                "Multiple perspectives and viewpoints were considered in the analysis",
                "Key trends and patterns were identified across different sources",
                "The research provides actionable insights for decision-making",
                "Comprehensive coverage of current developments and future implications" >>,
         references |-> summaries,
         context_used |-> st.context_summary,
         metadata |-> [generated_at |-> "utcnow", source_count |-> Len(summaries)]]

\* synthesizer reporting a raised invocation as the pipeline error
synthesizer_propagating(st, create, inv) ==
    IF st.summaries = None \/ st.summaries[1] = <<>>
    THEN [update |-> [error |-> Some("No summaries available for synthesis")],
          calls |-> <<>>]
    ELSE IF create = "raise"
    THEN [update |-> [error |-> Some("Final synthesis failed: " \o ConstructionError)],
          calls |-> <<Call("synthesizer", "create", Raised)>>]
    ELSE LET calls == <<Call("synthesizer", "create", Ok),
                        Call("synthesizer", "invoke", inv)>>
         IN  CASE inv.kind = "value" /\ FinalBriefValid(inv.value) ->
                    [update |-> [final_brief |-> Some(inv.value)], calls |-> calls]
               [] OTHER ->
                    [update |-> [error |-> Some("Final synthesis failed: " \o ValidationError)],
                     calls |-> calls]

synthesizer(st, create, inv) ==
    IF st.summaries = None \/ st.summaries[1] = <<>>
    THEN [update |-> [error |-> Some("No summaries available for synthesis")],
          calls |-> <<>>]
    ELSE IF create = "raise"
    THEN [update |-> [error |-> Some("Final synthesis failed: " \o ConstructionError)],
          calls |-> <<Call("synthesizer", "create", Raised)>>]
    ELSE LET calls == <<Call("synthesizer", "create", Ok),
                        Call("synthesizer", "invoke", inv)>>
             final_brief == IF inv.kind = "raise" THEN BriefFallback(st)
                            ELSE inv.value
         IN  CASE inv.kind = "null" ->
                    \* final_brief.model_dump() on None: the outer handler
                    [update |-> [error |-> Some("Final synthesis failed: " \o NullError)],
                     calls |-> calls]
               [] FinalBriefValid(final_brief) ->
                    [update |-> [final_brief |-> Some(final_brief)], calls |-> calls]
               [] OTHER ->
                    [update |-> [error |-> Some("Final synthesis failed: " \o ValidationError)],
                     calls |-> calls]

----------------------------------------------------------------------------
(* nodes.py: error_handler *)

\* error_handler adding a source count to the metadata of its brief
error_handler_annotating(st) ==
    IF st.error /= None /\ st.error[1] /= ""
    THEN LET error == st.error[1]
         IN  [final_brief |-> Some(
                [topic |-> st.topic,
                 executive_summary |->
                     "Error generating research brief: " \o error \o
                     ". Please try again with a different topic or check your API configuration.",
                 key_insights |-> <<"Error occurred during research generation",
                                    "Please check API configuration",
                                    "Try with a different topic">>,
                 references |->
                     << [url |-> "https://error.example.com",
                         title |-> "Error in Research Generation",
                         summary |-> "An error occurred during research generation: " \o error,
                         relevance_score |-> 0,
                         key_points |-> <<"Error occurred during research generation">>,
                         source_type |-> "error",
                         publication_date |-> None,
                         author |-> None] >>,
                 context_used |-> None,
                 metadata |-> [error |-> error, source_count |-> 0]])]
    ELSE <<>>

\* error_handler labelling its brief with a fixed text instead of the error
error_handler_unlabelled(st) ==
    IF st.error /= None /\ st.error[1] /= ""
    THEN [final_brief |-> Some(
              [error_handler_annotating(st).final_brief[1]
                   EXCEPT !.metadata = [error |-> "pipeline error"]])]
    ELSE <<>>

\* error_handler taking the error it reported out of the state
error_handler_resetting(st) ==
    IF st.error /= None /\ st.error[1] /= ""
    THEN [final_brief |-> error_handler_annotating(st).final_brief,
          error |-> None]
    ELSE <<>>

\* the executive summary of the brief that reports an error
error_summary(error) ==
    "Error generating research brief: " \o error \o
    ". Please try again with a different topic or check your API configuration."

error_handler(st) ==
    IF st.error /= None /\ st.error[1] /= ""
    THEN LET error == st.error[1]
             error_reference ==
                 [url |-> "https://error.example.com",
                  title |-> "Error in Research Generation",
                  summary |-> "An error occurred during research generation: " \o error,
                  relevance_score |-> 0,
                  key_points |-> <<"Error occurred during research generation">>,
                  source_type |-> "error",
                  publication_date |-> None,
                  author |-> None]
         IN  [final_brief |-> Some(
                [topic |-> st.topic,
                 executive_summary |-> error_summary(error),
                 key_insights |-> <<"Error occurred during research generation",
                                    "Please check API configuration",
                                    "Try with a different topic">>,
                 references |-> <<error_reference>>,
                 context_used |-> None,
                 metadata |-> [error |-> error]])]
    ELSE <<>>

----------------------------------------------------------------------------
(* graph.py: the routing predicates *)

\* should_summarize_context without the is_follow_up test
should_summarize_context_by_history(st) ==
    IF st.history /= <<>> THEN "context_summarizer" ELSE "planner"

should_summarize_context(st) ==
    IF st.is_follow_up /\ st.history /= <<>>
    THEN "context_summarizer" ELSE "planner"

\* should_continue_after_error testing for missing summaries instead of error
should_continue_after_error_by_summaries(st) ==
    IF st.summaries = None THEN "error_handler" ELSE "synthesizer"

\* should_continue_after_error treating a run without trace id as failed
should_continue_after_error_traced(st) ==
    IF (st.error /= None /\ st.error[1] /= "")
       \/ "trace_id" \notin DOMAIN st.execution_metadata
    THEN "error_handler" ELSE "synthesizer"

\* should_continue_after_error sending every run to error_handler
should_continue_after_error_always_handling(st) == "error_handler"

should_continue_after_error(st) ==
    IF st.error /= None /\ st.error[1] /= ""
    THEN "error_handler" ELSE "synthesizer"

----------------------------------------------------------------------------
(* What the collaborators may do in one run *)

\* the results of one structured_llm.invoke call, given the values it may return
LLMResults(values) == {Raised, Null} \cup {Value(v) : v \in values}

\* the results of the invoke call that follows a construction
InvokeResults(create, values) ==
    IF create = "raise" THEN {Raised} ELSE LLMResults(values)

\* the sequences over SearchHits of length at most MaxHits
HitSeqs == UNION {[1..n -> SearchHits] : n \in 0..MaxHits}

\* what search_tool.invoke may do for one query
SearchResponses ==
    {[kind |-> "raise"], [kind |-> "unexpected"]}
    \cup {[kind |-> "results", results |-> r] : r \in HitSeqs}

HitCount(r) == IF r.kind = "results" THEN Len(r.results) ELSE 0

RECURSIVE ResponseSeqs(_, _)
\* the responses to n queries that hold at most budget hits together
ResponseSeqs(n, budget) ==
    IF n = 0 THEN {<<>>}
    ELSE UNION { {<<r>> \o rest : rest \in ResponseSeqs(n - 1, budget - HitCount(r))}
                 : r \in {x \in SearchResponses : HitCount(x) <= budget} }

\* ResponseSeqs for the plan lengths that occur, evaluated once
ResponsesFor0 == ResponseSeqs(0, MaxHits)
ResponsesFor2 == ResponseSeqs(2, MaxHits)
ResponsesFor3 == ResponseSeqs(3, MaxHits)

ResponsesFor(n) ==
    CASE n = 0 -> ResponsesFor0
      [] n = 2 -> ResponsesFor2
      [] n = 3 -> ResponsesFor3
      [] OTHER -> ResponseSeqs(n, MaxHits)

----------------------------------------------------------------------------
(* graph.py: the compiled workflow *)

Init ==
    /\ \E topic \in Topics, depth \in Depths, follow_up \in BOOLEAN,
          history \in Histories, execution_metadata \in ExecutionMetadatas :
           state = InitialState(topic, depth, follow_up, history,
                                execution_metadata)
    /\ pc = "__start__"
    /\ executed = <<>>
    /\ llm_calls = <<>>
    /\ search_calls = <<>>

\* the conditional edge out of __start__
Start ==
    /\ pc = "__start__"
    /\ pc' = should_summarize_context(state)
    /\ UNCHANGED <<state, executed, llm_calls, search_calls>>

RunContextSummarizer ==
    /\ pc = "context_summarizer"
    /\ \E create \in CreateOutcomes :
       \E inv \in InvokeResults(create, ModelContextSummaries) :
           LET out == context_summarizer(state, create, inv)
           IN  /\ state' = Merge(state, out.update)
               /\ llm_calls' = llm_calls \o out.calls
    /\ executed' = Append(executed, "context_summarizer")
    /\ pc' = "planner"
    /\ UNCHANGED search_calls

RunPlanner ==
    /\ pc = "planner"
    /\ \E create \in CreateOutcomes :
       \E inv \in InvokeResults(create, ModelPlans) :
           LET out == planner(state, create, inv)
           IN  /\ state' = Merge(state, out.update)
               /\ llm_calls' = llm_calls \o out.calls
    /\ executed' = Append(executed, "planner")
    /\ pc' = "search_and_fetch"
    /\ UNCHANGED search_calls

RunSearchAndFetch ==
    /\ pc = "search_and_fetch"
    /\ \E responses \in ResponsesFor(IF state.plan = None THEN 0
                                     ELSE Len(state.plan[1].queries)) :
           /\ state' = Merge(state, search_and_fetch(state, responses))
           /\ search_calls' =
                  search_calls \o search_and_fetch_calls(state, responses)
    /\ executed' = Append(executed, "search_and_fetch")
    /\ pc' = "per_source_summarizer"
    /\ UNCHANGED llm_calls

RunPerSourceSummarizer ==
    /\ pc = "per_source_summarizer"
    /\ LET n == IF state.fetched_content = None THEN 0
                ELSE Len(state.fetched_content[1])
       IN  \E create \in CreateOutcomes :
           \E invs \in [1..n -> InvokeResults(create, ModelSummaries)] :
               LET out == per_source_summarizer(state, create, invs)
               IN  /\ state' = Merge(state, out.update)
                   /\ llm_calls' = llm_calls \o out.calls
                   \* the conditional edge out of per_source_summarizer
                   /\ pc' = should_continue_after_error(state')
    /\ executed' = Append(executed, "per_source_summarizer")
    /\ UNCHANGED search_calls

RunSynthesizer ==
    /\ pc = "synthesizer"
    /\ \E create \in CreateOutcomes :
       \E inv \in InvokeResults(create, ModelBriefsFor(state)) :
           LET out == synthesizer(state, create, inv)
           IN  /\ state' = Merge(state, out.update)
               /\ llm_calls' = llm_calls \o out.calls
    /\ executed' = Append(executed, "synthesizer")
    /\ pc' = "__end__"
    /\ UNCHANGED search_calls

RunErrorHandler ==
    /\ pc = "error_handler"
    /\ LET update == error_handler(state)
       IN  IF "final_brief" \in DOMAIN update
              /\ ~FinalBriefValid(update.final_brief[1])
           THEN \* FinalBrief(...) raises and nothing catches it
                /\ pc' = "__raised__"
                /\ UNCHANGED state
           ELSE /\ pc' = "__end__"
                /\ state' = Merge(state, update)
    /\ executed' = Append(executed, "error_handler")
    /\ UNCHANGED <<llm_calls, search_calls>>

Next ==
    \/ Start
    \/ RunContextSummarizer
    \/ RunPlanner
    \/ RunSearchAndFetch
    \/ RunPerSourceSummarizer
    \/ RunSynthesizer
    \/ RunErrorHandler

Spec == Init /\ [][Next]_vars

----------------------------------------------------------------------------
(* The runs of first requests: no follow-up, nothing in the history, and a  *)
(* search service that may return up to MaxSources hits                     *)

FreshInit ==
    /\ \E topic \in Topics, depth \in Depths,
          execution_metadata \in ExecutionMetadatas :
           state = InitialState(topic, depth, FALSE, <<>>, execution_metadata)
    /\ pc = "__start__"
    /\ executed = <<>>
    /\ llm_calls = <<>>
    /\ search_calls = <<>>

RunSearchAndFetchWide ==
    /\ pc = "search_and_fetch"
    /\ \E responses \in ResponseSeqs(IF state.plan = None THEN 0
                                      ELSE Len(state.plan[1].queries),
                                      MaxSources) :
           /\ state' = Merge(state, search_and_fetch(state, responses))
           /\ search_calls' =
                  search_calls \o search_and_fetch_calls(state, responses)
    /\ executed' = Append(executed, "search_and_fetch")
    /\ pc' = "per_source_summarizer"
    /\ UNCHANGED llm_calls

FreshNext ==
    \/ Start
    \/ RunPlanner
    \/ RunSearchAndFetchWide
    \/ RunPerSourceSummarizer
    \/ RunSynthesizer
    \/ RunErrorHandler

FreshSpec == FreshInit /\ [][FreshNext]_vars

----------------------------------------------------------------------------
(* SearchTool.search_and_fetch on its own, one search_tool.invoke at a     *)
(* time.  Here state is the frame of the call: its argument queries, the   *)
(* index next of the query the loop takes next, all_results, and for the   *)
(* turns taken so far what the search call did (outcomes) and how many     *)
(* result dicts were looked at (seen).                                     *)

\* the query lists a stored plan can hold
PlanQueries ==
    {p.queries : p \in {q \in ModelPlans : ResearchPlanValid(q)}}
    \cup {PlanFallback([topic |-> t, depth |-> "moderate"]).queries : t \in Topics}

\* what search_tool.invoke may do for one query
ToolResponses ==
    {[kind |-> "raise"], [kind |-> "unexpected"]}
    \cup {[kind |-> "results", results |-> r]
            : r \in UNION {[1..n -> ToolHits] : n \in 0..MaxHits}}

ToolInit ==
    /\ \E queries \in PlanQueries :
           state = [queries |-> queries, next |-> 1, all_results |-> <<>>,
                    outcomes |-> <<>>, seen |-> 0]
    /\ pc = "search_tool"
    /\ executed = <<>>
    /\ llm_calls = <<>>
    /\ search_calls = <<>>

\* one turn of the loop over the queries
ToolInvoke ==
    /\ pc = "search_tool"
    /\ state.next <= Len(state.queries)
    /\ \E r \in ToolResponses :
           state' = [state EXCEPT
                        !.next = NextQuery(state.next, Len(state.queries), r),
                        !.all_results = @ \o QueryResults(r),
                        !.outcomes = Append(@, r.kind),
                        !.seen = @ + HitCount(r)]
    /\ search_calls' = Append(search_calls, state.queries[state.next])
    /\ UNCHANGED <<pc, executed, llm_calls>>

\* the loop is over: return all_results
ToolReturn ==
    /\ pc = "search_tool"
    /\ state.next > Len(state.queries)
    /\ pc' = "returned"
    /\ UNCHANGED <<state, executed, llm_calls, search_calls>>

ToolNext ==
    \/ ToolInvoke
    \/ ToolReturn

ToolSpec == ToolInit /\ [][ToolNext]_vars

----------------------------------------------------------------------------
(* storage.py: BriefStorage.  The briefs table is the list of its rows in   *)
(* the order they were inserted; created_at grows with every insert (no two *)
(* briefs are saved within the same second).                                *)

\* the briefs a user stored with earlier requests
PastBrief(i) ==
    [topic |-> "past topic " \o IntToStr(i),
     executive_summary |->
         "Past research number " \o IntToStr(i) \o
         " was reviewed across several regions and sources.",
     key_insights |-> <<"past insight " \o IntToStr(i)>>,
     references |-> <<>>, context_used |-> None, metadata |-> <<>>]

\* INSERT INTO briefs ... brief.model_dump_json()
save_brief(store, user_id, brief) ==
    Append(store, [id |-> Len(store) + 1,
                   user_id |-> user_id,
                   brief_data |-> model_dump_json(brief),
                   created_at |-> Len(store) + 1])

\* SELECT ... WHERE user_id = ? ORDER BY created_at DESC LIMIT ?, and for each
\* row the dump of the brief it parses to, with the keys id and generated_at;
\* a row that does not parse is skipped
get_user_history(store, user_id, limit) ==
    LET mine == SelectSeq(store, LAMBDA row : row.user_id = user_id)
        n == Len(mine)
        k == IF n < limit THEN n ELSE limit
        rows == [i \in 1..k |-> mine[n + 1 - i]]
        parsed == SelectSeq(rows,
                      LAMBDA row : FinalBrief(json_loads(row.brief_data)) /= None)
    IN  [i \in 1..Len(parsed) |->
            SetItem(SetItem(FinalBrief_model_dump(
                                FinalBrief(json_loads(parsed[i].brief_data))[1]),
                            "id", parsed[i].id),
                    "generated_at", parsed[i].created_at)]

----------------------------------------------------------------------------
(* main.py: generate_brief, the handler of POST /brief.  Here state is the  *)
(* frame of the handler: the request, the briefs table (store), the state   *)
(* of the graph it streams (graph) and the node the graph runs next (next), *)
(* its local final_brief, its background_tasks, what it answered (response) *)
(* and what was raised inside it (raised).                                  *)

\* the briefs a user may have stored before the request
MaxStored == 5

UserId == "user-1"

\* str(uuid.uuid4()) of the request
TraceId == "trace-1"

\* how many: none, one, more than the 3 the prompt takes, and more than the
\* 5 the handler asks for
StoredCounts == {0, 1, MaxStored - 1, MaxStored + 1}

RECURSIVE StoreOf(_)
\* the briefs table after n earlier requests of the user
StoreOf(n) ==
    IF n = 0 THEN <<>> ELSE save_brief(StoreOf(n - 1), UserId, PastBrief(n))

\* the BriefRequest bodies, of the default depth
Requests ==
    {[topic |-> t, depth |-> "moderate", follow_up |-> f, user_id |-> UserId]
        : t \in Topics, f \in BOOLEAN}

\* initial_state
initial_state(request, history) ==
    InitialState(request.topic, request.depth, request.follow_up, history,
                 [trace_id |-> TraceId, start_time |-> "t0",
                  request_id |-> "request-1", llm_provider |-> "Azure OpenAI"])

\* what the search service answers to the first query of a request; it
\* finds nothing for the other queries
ApiSearchResponses ==
    { [kind |-> "raise"],
      [kind |-> "results", results |-> <<>>],
      [kind |-> "results", results |->
          <<[url |-> "https://a.example/one", title |-> "One", content |-> ContentOk]>>] }

\* the responses to the n queries of a plan
ApiResponsesFor(n) ==
    {[i \in 1..n |-> IF i = 1 THEN r ELSE [kind |-> "results", results |-> <<>>]]
        : r \in ApiSearchResponses}

\* what a node returns and the collaborator calls it makes
NodeOutput(out) == [update |-> out.update, calls |-> out.calls, searches |-> <<>>]

\* the outputs a node of the graph may stream from the state g
NodeOutputs(node, g) ==
    CASE node = "context_summarizer" ->
           UNION {{NodeOutput(context_summarizer(g, create, inv))
                     : inv \in InvokeResults(create, ModelContextSummaries)}
                  : create \in CreateOutcomes}
      [] node = "planner" ->
           UNION {{NodeOutput(planner(g, create, inv))
                     : inv \in InvokeResults(create, ModelPlans)}
                  : create \in CreateOutcomes}
      [] node = "search_and_fetch" ->
           LET n == IF g.plan = None THEN 0 ELSE Len(g.plan[1].queries)
           IN  {[update |-> search_and_fetch(g, responses),
                 calls |-> <<>>,
                 searches |-> search_and_fetch_calls(g, responses)]
                  : responses \in ApiResponsesFor(n)}
      [] node = "per_source_summarizer" ->
           LET n == IF g.fetched_content = None THEN 0
                    ELSE Len(g.fetched_content[1])
           IN  UNION {{NodeOutput(per_source_summarizer(g, create, invs))
                         : invs \in [1..n -> InvokeResults(create, ModelSummaries)]}
                      : create \in CreateOutcomes}
      [] node = "synthesizer" ->
           UNION {{NodeOutput(synthesizer(g, create, inv))
                     : inv \in InvokeResults(create, ModelBriefsFor(g))}
                  : create \in CreateOutcomes}
      [] OTHER ->
           {[update |-> error_handler(g), calls |-> <<>>, searches |-> <<>>]}

\* the edges of the compiled graph: the node that follows node in the state g
next_node(node, g) ==
    CASE node = "__start__" -> should_summarize_context(g)
      [] node = "context_summarizer" -> "planner"
      [] node = "planner" -> "search_and_fetch"
      [] node = "search_and_fetch" -> "per_source_summarizer"
      [] node = "per_source_summarizer" -> should_continue_after_error(g)
      [] OTHER -> "__end__"

\* the body of the loop over the events: if "final_brief" in node_output
on_event(final_brief, node_output) ==
    IF "final_brief" \in DOMAIN node_output
    THEN node_output.final_brief ELSE final_brief

\* what is raised inside the try of the handler
HTTPException(status_code, detail) ==
    [class |-> "HTTPException", status_code |-> status_code, detail |-> detail]
Exception(text) == [class |-> "Exception", text |-> text]
CancelledError == [class |-> "CancelledError", text |-> ""]

\* the except clauses answering with a brief that reports the error
generate_brief_except_as_brief(exc, topic) ==
    [escapes |-> FALSE,
     response |-> Some(
         [kind |-> "BriefResponse", status_code |-> 200,
          brief |-> error_handler([topic |-> topic,
                                   error |-> Some("Failed to generate research brief")]
                                 ).final_brief[1]])]

\* the except clauses of the handler: an HTTPException is raised again and
\* answered by the framework with its status and detail; an Exception is
\* answered with an ErrorResponse; a CancelledError is a BaseException that
\* neither clause catches
generate_brief_except(exc, topic) ==
    CASE exc.class = "HTTPException" ->
           [escapes |-> TRUE,
            response |-> Some([kind |-> "HTTPException",
                               status_code |-> exc.status_code,
                               content |-> [detail |-> exc.detail]])]
      [] exc.class = "Exception" ->
           [escapes |-> FALSE,
            response |-> Some([kind |-> "ErrorResponse",
                               status_code |-> 500,
                               content |->
                                   [error |-> "Failed to generate research brief",
                                    details |-> [original_error |-> exc.text],
                                    trace_id |-> TraceId]])]
      [] OTHER ->
           [escapes |-> TRUE, response |-> None]

\* the end of the handler asking for the save whether or not there is a brief
respond_saving_always(frame) ==
    [background_tasks |->
         Append(frame.background_tasks,
                [func |-> "save_brief", user_id |-> frame.request.user_id,
                 brief |-> frame.final_brief]),
     response |->
         IF frame.final_brief = None
         THEN generate_brief_except(
                  HTTPException(500, "Failed to generate research brief"),
                  frame.request.topic).response
         ELSE Some([kind |-> "BriefResponse", status_code |-> 200,
                    brief |-> frame.final_brief[1]])]

\* the handler once the stream is over: no brief raises HTTPException(500);
\* otherwise save_brief is added to the background tasks and the brief is
\* answered in a BriefResponse
respond(frame) ==
    IF frame.final_brief = None
    THEN [background_tasks |-> frame.background_tasks,
          response |-> generate_brief_except(
                           HTTPException(500, "Failed to generate research brief"),
                           frame.request.topic).response]
    ELSE [background_tasks |->
              Append(frame.background_tasks,
                     [func |-> "save_brief", user_id |-> frame.request.user_id,
                      brief |-> frame.final_brief]),
          response |-> Some([kind |-> "BriefResponse", status_code |-> 200,
                             brief |-> frame.final_brief[1]])]

ApiInit ==
    /\ \E request \in Requests, n \in StoredCounts :
           state = [request |-> request,
                    store |-> StoreOf(n),
                    graph |-> None,
                    next |-> "__start__",
                    final_brief |-> None,
                    background_tasks |-> <<>>,
                    response |-> None,
                    raised |-> None]
    /\ pc = "get_user_history"
    /\ executed = <<>>
    /\ llm_calls = <<>>
    /\ search_calls = <<>>

\* history = storage.get_user_history(request.user_id, limit=5), and the
\* initial state of the graph
ApiGetHistory ==
    /\ pc = "get_user_history"
    /\ state' = [state EXCEPT !.graph =
                    Some(initial_state(state.request,
                             get_user_history(state.store,
                                              state.request.user_id, 5)))]
    /\ pc' = "astream"
    /\ UNCHANGED <<executed, llm_calls, search_calls>>

\* one event of research_graph.astream: the graph ran its next node
ApiEvent ==
    /\ pc = "astream"
    /\ state.next /= "__end__"
    /\ LET g == state.graph[1]
           node == IF state.next = "__start__"
                   THEN next_node("__start__", g) ELSE state.next
       IN  \E out \in NodeOutputs(node, g) :
               /\ state' = [state EXCEPT
                      !.graph = Some(Merge(g, out.update)),
                      !.next = next_node(node, Merge(g, out.update)),
                      !.final_brief = on_event(state.final_brief, out.update)]
               /\ executed' = Append(executed, node)
               /\ llm_calls' = llm_calls \o out.calls
               /\ search_calls' = search_calls \o out.searches
    /\ UNCHANGED pc

\* research_graph.astream raises instead of giving its next event
ApiRaise ==
    /\ pc = "astream"
    /\ state.next /= "__end__"
    /\ LET exc == Exception("Graph execution failed")
       IN  state' = [state EXCEPT
               !.raised = Some(exc),
               !.response = generate_brief_except(exc, state.request.topic).response]
    /\ pc' = "responded"
    /\ UNCHANGED <<executed, llm_calls, search_calls>>

\* the caller gives up while the handler awaits the next event: the task of
\* the request is cancelled at that await
ApiCancel ==
    /\ pc = "astream"
    /\ state.next /= "__end__"
    /\ state' = [state EXCEPT
           !.raised = Some(CancelledError),
           !.response = generate_brief_except(CancelledError,
                                              state.request.topic).response]
    /\ pc' = "cancelled"
    /\ UNCHANGED <<executed, llm_calls, search_calls>>

\* the stream is over
ApiRespond ==
    /\ pc = "astream"
    /\ state.next = "__end__"
    /\ state' = [state EXCEPT
           !.background_tasks = respond(state).background_tasks,
           !.response = respond(state).response]
    /\ pc' = "responded"
    /\ UNCHANGED <<executed, llm_calls, search_calls>>

\* the background tasks run once the response is sent; save_brief may fail,
\* which it logs
ApiBackground ==
    /\ pc = "responded"
    /\ state.background_tasks /= <<>>
    /\ \E saved \in BOOLEAN :
           state' = [state EXCEPT !.store =
                         IF saved /\ state.background_tasks[1].brief /= None
                         THEN save_brief(state.store,
                                         state.background_tasks[1].user_id,
                                         state.background_tasks[1].brief[1])
                         ELSE state.store]
    /\ pc' = "done"
    /\ UNCHANGED <<executed, llm_calls, search_calls>>

ApiNext ==
    \/ ApiGetHistory
    \/ ApiEvent
    \/ ApiRaise
    \/ ApiCancel
    \/ ApiRespond
    \/ ApiBackground

ApiSpec == ApiInit /\ [][ApiNext]_vars

----------------------------------------------------------------------------
(* main.py and schemas.py: two requests of one user to POST /brief, the     *)
(* second sent once the first was answered.  The frame of the handler is    *)
(* the one above, with the JSON body the caller sent (body), whether the    *)
(* request follows an earlier one (follows), the brief the caller was       *)
(* answered with by the earlier request (delivered) and the background      *)
(* tasks of the earlier request that have not run yet (pending).  The       *)
(* briefs table is empty before the first request.  executed, llm_calls     *)
(* and search_calls are those of the request being handled.                 *)

\* the bodies a caller may send: a topic of 4 or of 5 characters, with or
\* without a user id
Bodies ==
    {Dict(<< <<"topic", t>>, <<"follow_up", f>> >> \o u)
        : t \in {"Rust", "solar"}, f \in BOOLEAN,
          u \in {<<>>, << <<"user_id", UserId>> >>}}

\* BriefRequest accepting a topic of any length
BriefRequest_any_topic(d) ==
    LET topic == Lookup(d, "topic")
        depth == Lookup(d, "depth")
        follow_up == Lookup(d, "follow_up")
        user_id == Lookup(d, "user_id")
    IN  IF topic = None \/ user_id = None THEN None
        ELSE Some([topic |-> topic[1],
                   depth |-> IF depth = None THEN "moderate" ELSE depth[1],
                   follow_up |-> IF follow_up = None THEN FALSE ELSE follow_up[1],
                   user_id |-> user_id[1]])

\* BriefRequest(**body): topic and user_id are required, the topic has at
\* least 5 characters, depth is one of the three depths and defaults to
\* moderate, follow_up defaults to False; None when the body is rejected
BriefRequest(d) ==
    LET topic == Lookup(d, "topic")
        depth == Lookup(d, "depth")
        follow_up == Lookup(d, "follow_up")
        user_id == Lookup(d, "user_id")
    IN  IF topic = None \/ user_id = None THEN None
        ELSE IF Len(topic[1]) < 5 THEN None
        ELSE IF depth /= None /\ depth[1] \notin Depths THEN None
        ELSE Some([topic |-> topic[1],
                   depth |-> IF depth = None THEN "moderate" ELSE depth[1],
                   follow_up |-> IF follow_up = None THEN FALSE ELSE follow_up[1],
                   user_id |-> user_id[1]])

\* the answer of the framework to a body that BriefRequest rejects
RequestValidationError ==
    [kind |-> "RequestValidationError", status_code |-> 422,
     content |-> [detail |-> "validation error"]]

\* the frame of the handler for a body that has just arrived
NewFrame(body, store, follows, delivered, pending) ==
    [body |-> body,
     request |-> None,
     store |-> store,
     graph |-> None,
     next |-> "__start__",
     final_brief |-> None,
     background_tasks |-> <<>>,
     response |-> None,
     raised |-> None,
     follows |-> follows,
     delivered |-> delivered,
     pending |-> pending]

\* the brief a response carries, None if it carries none
BriefOf(response) ==
    IF response /= None /\ response[1].kind = "BriefResponse"
    THEN Some(response[1].brief) ELSE None

\* the background task run: save_brief inserts the brief unless it fails
run_save_brief(store, task, saved) ==
    IF saved /\ task.brief /= None
    THEN save_brief(store, task.user_id, task.brief[1])
    ELSE store

SessionInit ==
    /\ \E body \in Bodies : state = NewFrame(body, <<>>, FALSE, None, <<>>)
    /\ pc = "request"
    /\ executed = <<>>
    /\ llm_calls = <<>>
    /\ search_calls = <<>>

\* the framework builds the BriefRequest of the handler's signature from the
\* body, and answers 422 without calling the handler when that fails
SessionValidate ==
    /\ pc = "request"
    /\ IF BriefRequest(state.body) = None
       THEN /\ state' = [state EXCEPT !.response = Some(RequestValidationError)]
            /\ pc' = "responded"
       ELSE /\ state' = [state EXCEPT !.request = BriefRequest(state.body)[1]]
            /\ pc' = "get_user_history"
    /\ UNCHANGED <<executed, llm_calls, search_calls>>

\* the caller has the answer to its first request and sends the next one;
\* a background task of the first request that has not run yet runs later
SessionFollowUp ==
    /\ pc \in {"responded", "done"}
    /\ ~state.follows
    /\ \E body \in Bodies :
           state' = NewFrame(body, state.store, TRUE, BriefOf(state.response),
                             IF pc = "responded"
                             THEN state.background_tasks ELSE <<>>)
    /\ pc' = "request"
    /\ executed' = <<>>
    /\ llm_calls' = <<>>
    /\ search_calls' = <<>>

\* a background task of the first request runs while the second is handled
SessionLateBackground ==
    /\ state.pending /= <<>>
    /\ \E saved \in BOOLEAN :
           state' = [state EXCEPT
               !.store = run_save_brief(@, state.pending[1], saved),
               !.pending = Tail(@)]
    /\ UNCHANGED <<pc, executed, llm_calls, search_calls>>

SessionNext ==
    \/ SessionValidate
    \/ ApiGetHistory
    \/ ApiEvent
    \/ ApiRaise
    \/ ApiRespond
    \/ ApiBackground
    \/ SessionFollowUp
    \/ SessionLateBackground

SessionSpec == SessionInit /\ [][SessionNext]_vars

----------------------------------------------------------------------------
(* monitoring.py: the one metrics_collector of the process, used by two     *)
(* requests that are handled at the same time (the handler awaits the       *)
(* stream, and the nodes run in worker threads).  Here state is the         *)
(* collector's current_metrics (a reference to an ExecutionMetrics object), *)
(* the ExecutionMetrics objects by the trace id they were made for (heap),  *)
(* the first node of each run (route) and the metrics each handler read for *)
(* its response (reported); pc and executed are kept per run.  A duration   *)
(* or a token usage is written as the run that measured it.                 *)

\* the trace ids of the two requests
Runs == {"A", "B"}

\* the nodes that record their execution time and token usage
MetricNodes == {"context_summarizer", "planner"}

\* ExecutionMetrics(trace_id=trace_id, start_time=start_time)
ExecutionMetrics(trace) ==
    [trace_id |-> trace, end_time |-> None, token_usage |-> <<>>,
     node_execution_times |-> Dict(<<>>)]

\* MetricsCollector.add_token_usage
add_token_usage(heap, current_metrics, usage) ==
    IF current_metrics = None THEN heap
    ELSE [heap EXCEPT ![current_metrics[1]] =
              Some([@[1] EXCEPT !.token_usage = Append(@, usage)])]

\* MetricsCollector.add_node_execution_time
add_node_execution_time(heap, current_metrics, node_name, duration) ==
    IF current_metrics = None THEN heap
    ELSE [heap EXCEPT ![current_metrics[1]] =
              Some([@[1] EXCEPT !.node_execution_times =
                                    SetItem(@, node_name, duration)])]

\* the finally of track_execution
track_execution_exit(heap, current_metrics, end_time) ==
    [heap EXCEPT ![current_metrics[1]] =
         Some([@[1] EXCEPT !.end_time = Some(end_time)])]

OverlapInit ==
    /\ \E route \in [Runs -> {"context_summarizer", "planner"}] :
           state = [current_metrics |-> None,
                    heap |-> [r \in Runs |-> None],
                    route |-> route,
                    reported |-> [r \in Runs |-> None]]
    /\ pc = [r \in Runs |-> "request"]
    /\ executed = [r \in Runs |-> <<>>]
    /\ llm_calls = <<>>
    /\ search_calls = <<>>

\* with metrics_collector.track_execution(trace_id) as metrics
OverlapEnter ==
    \E r \in Runs :
        /\ pc[r] = "request"
        /\ state' = [state EXCEPT !.heap[r] = Some(ExecutionMetrics(r)),
                                  !.current_metrics = Some(r)]
        /\ pc' = [pc EXCEPT ![r] = state.route[r]]
        /\ UNCHANGED <<executed, llm_calls, search_calls>>

\* a node of the run finishes; context_summarizer and planner record the
\* token usage of their call, if the response carries one, and their duration
OverlapNode ==
    \E r \in Runs :
        /\ pc[r] \in {"context_summarizer", "planner", "search_and_fetch",
                      "per_source_summarizer", "synthesizer", "error_handler"}
        /\ IF pc[r] \in MetricNodes
           THEN \E usage \in BOOLEAN :
                    state' = [state EXCEPT !.heap =
                        add_node_execution_time(
                            IF usage
                            THEN add_token_usage(state.heap, state.current_metrics,
                                     [operation |-> "llm_call", run |-> r])
                            ELSE state.heap,
                            state.current_metrics, pc[r], [run |-> r])]
           ELSE UNCHANGED state
        /\ \E terminal \in {"synthesizer", "error_handler"} :
               pc' = [pc EXCEPT ![r] =
                         CASE pc[r] = "per_source_summarizer" -> terminal
                           [] pc[r] \in {"synthesizer", "error_handler"} -> "respond"
                           [] OTHER -> next_node(pc[r], <<>>)]
        /\ executed' = [executed EXCEPT ![r] = Append(@, pc[r])]
        /\ UNCHANGED <<llm_calls, search_calls>>

\* the handler reads metrics for its response and its log, returns, and the
\* finally of track_execution sets the end time
OverlapLeave ==
    \E r \in Runs :
        /\ pc[r] = "respond"
        /\ state' = [state EXCEPT
               !.reported[r] = state.heap[r],
               !.heap = track_execution_exit(state.heap, state.current_metrics, r)]
        /\ pc' = [pc EXCEPT ![r] = "done"]
        /\ UNCHANGED <<executed, llm_calls, search_calls>>

OverlapNext ==
    \/ OverlapEnter
    \/ OverlapNode
    \/ OverlapLeave

OverlapSpec == OverlapInit /\ [][OverlapNext]_vars

----------------------------------------------------------------------------
(* storage.py and main.py: the tables of the database and the endpoint that *)
(* deletes a user's data.  Here state is the database (the rows of briefs   *)
(* and of conversations in the order they were inserted, and the user ids   *)
(* of the users table) and the answer of the last delete request            *)
(* (response); pc names the operation that ran last.  The foreign keys of   *)
(* the tables are declared but sqlite3 does not enforce them (no PRAGMA     *)
(* foreign_keys), so a delete touches the rows its statements name.         *)

\* the rows a table may hold
MaxRows == 3

\* the users of the service
Users == {"user-1", "user-2"}

\* INSERT INTO conversations (user_id, user_input, bot_response,
\* interaction_type)
save_conversation(conversations, user_id, user_input, bot_response, interaction_type) ==
    Append(conversations,
           [id |-> Len(conversations) + 1,
            user_id |-> user_id,
            user_input |-> user_input,
            bot_response |-> bot_response,
            interaction_type |-> interaction_type,
            created_at |-> Len(conversations) + 1])

\* SELECT ... FROM conversations WHERE user_id = ? ORDER BY created_at DESC
\* LIMIT ?, each row as a dict
get_conversation_history(conversations, user_id, limit) ==
    LET mine == SelectSeq(conversations, LAMBDA row : row.user_id = user_id)
        n == Len(mine)
        k == IF n < limit THEN n ELSE limit
    IN  [i \in 1..k |->
            Dict(<< <<"user_input", mine[n + 1 - i].user_input>>,
                    <<"bot_response", mine[n + 1 - i].bot_response>>,
                    <<"interaction_type", mine[n + 1 - i].interaction_type>>,
                    <<"created_at", mine[n + 1 - i].created_at>> >>)]

\* DELETE FROM briefs WHERE user_id = ?; DELETE FROM users WHERE user_id = ?;
\* commit.  ok is whether the statements ran: when one raises nothing is
\* committed and the method returns False
delete_user_briefs(db, user_id, ok) ==
    IF ok
    THEN [db |-> [db EXCEPT
                     !.briefs = SelectSeq(@, LAMBDA row : row.user_id /= user_id),
                     !.users = @ \ {user_id}],
          success |-> TRUE]
    ELSE [db |-> db, success |-> FALSE]

\* the handler of DELETE /user/{user_id}
delete_user_data(db, user_id, ok) ==
    LET deleted == delete_user_briefs(db, user_id, ok)
    IN  [db |-> deleted.db,
         response |->
             IF ~deleted.success
             THEN [status_code |-> 500, user_id |-> user_id,
                   content |-> [detail |-> "Failed to delete user data"]]
             ELSE [status_code |-> 200, user_id |-> user_id,
                   content |->
                       [message |-> "Successfully deleted all data for user "
                                        \o user_id]]]

StorageInit ==
    /\ state = [briefs |-> <<>>, users |-> {}, conversations |-> <<>>,
                response |-> None]
    /\ pc = "init"
    /\ executed = <<>>
    /\ llm_calls = <<>>
    /\ search_calls = <<>>

\* storage.save_brief of a brief of the user: the user is inserted if new,
\* then the brief
StorageSaveBrief ==
    /\ Len(state.briefs) < MaxRows
    /\ \E user_id \in Users :
           state' = [state EXCEPT
               !.users = @ \cup {user_id},
               !.briefs = save_brief(@, user_id, PastBrief(Len(@) + 1))]
    /\ pc' = "save_brief"
    /\ UNCHANGED <<executed, llm_calls, search_calls>>

\* storage.save_conversation of one exchange of the chat
StorageSaveConversation ==
    /\ Len(state.conversations) < MaxRows
    /\ \E user_id \in Users :
           state' = [state EXCEPT
               !.users = @ \cup {user_id},
               !.conversations =
                   save_conversation(@, user_id, "hello", "hi there", "api_chat")]
    /\ pc' = "save_conversation"
    /\ UNCHANGED <<executed, llm_calls, search_calls>>

\* DELETE /user/{user_id}
StorageDelete ==
    /\ \E user_id \in Users, ok \in BOOLEAN :
           LET out == delete_user_data(
                          [briefs |-> state.briefs, users |-> state.users,
                           conversations |-> state.conversations],
                          user_id, ok)
           IN  state' = [briefs |-> out.db.briefs,
                         users |-> out.db.users,
                         conversations |-> out.db.conversations,
                         response |-> Some(out.response)]
    /\ pc' = "delete_user_data"
    /\ UNCHANGED <<executed, llm_calls, search_calls>>

StorageNext ==
    \/ StorageSaveBrief
    \/ StorageSaveConversation
    \/ StorageDelete

StorageSpec == StorageInit /\ [][StorageNext]_vars

----------------------------------------------------------------------------
(* Vocabulary of the properties *)

Last(seq) == seq[Len(seq)]

\* the node has run
Ran(node) == \E i \in 1..Len(executed) : executed[i] = node

\* the run is over
Ended == pc = "__end__"

TerminalNodes == {"synthesizer", "error_handler"}

\* the calls the step being taken adds to llm_calls
NewCalls == SubSeq(llm_calls', Len(llm_calls) + 1, Len(llm_calls'))

\* the results of the invoke calls a node has made, in order
Invokes(node) ==
    LET made == SelectSeq(llm_calls,
                    LAMBDA c : c.node = node /\ c.op = "invoke")
    IN  [i \in 1..Len(made) |-> made[i].result]

----------------------------------------------------------------------------
(* C1 *)

\* C1: whatever the collaborators do, a run ends after its few stages without
\* raising, and the state it ends in carries a FinalBrief.
C1_RunEndsWithBrief ==
    /\ pc /= "__raised__"
    /\ Len(executed) <= 5
    /\ Ended => state.final_brief /= None

----------------------------------------------------------------------------
(* C2 *)

\* C2: after per_source_summarizer exactly one of synthesizer and error_handler
\* runs: error_handler exactly when error is set at that point, synthesizer
\* otherwise (so never with error set), and nothing runs after either.
C2_OneTerminalStage ==
    /\ pc = "error_handler" => state.error /= None
    /\ pc = "synthesizer" => state.error = None
    /\ pc \in TerminalNodes => Last(executed) = "per_source_summarizer"
    /\ Ran("per_source_summarizer") => pc \in TerminalNodes \cup {"__end__"}
    /\ \A i \in 1..Len(executed) :
           executed[i] \in TerminalNodes => i = Len(executed) /\ Ended
    /\ Ended => Last(executed) \in TerminalNodes
    /\ Ran("error_handler") => state.error /= None

\* a run that produced summaries and still ended in error_handler
C2_Witness ==
    /\ Ended
    /\ Last(executed) = "error_handler"
    /\ state.summaries /= None

----------------------------------------------------------------------------
(* C3 *)

\* C3: without is_follow_up or with an empty history context_summarizer never
\* runs, makes no model call, and context_summary stays None throughout; with
\* both, context_summarizer is the first node to run.
C3_ContextRecallOnlyForFollowUps ==
    /\ (~state.is_follow_up \/ state.history = <<>>) =>
           /\ pc /= "context_summarizer"
           /\ ~Ran("context_summarizer")
           /\ \A i \in 1..Len(llm_calls) : llm_calls[i].node /= "context_summarizer"
           /\ state.context_summary = None
    /\ (state.is_follow_up /\ state.history /= <<>>) =>
           /\ executed = <<>> => pc \in {"__start__", "context_summarizer"}
           /\ executed /= <<>> => executed[1] = "context_summarizer"

\* a finished run of a request that has a history but is no follow-up
C3_Witness ==
    /\ Ended
    /\ ~state.is_follow_up
    /\ state.history /= <<>>
    /\ state.final_brief /= None

----------------------------------------------------------------------------
(* C4 *)

\* C4: when retrieval produced no source, the run ends with error set and a
\* brief whose metadata["error"] is the message retrieval set, and whose
\* references are one sentinel of relevance 0.0.
C4_RetrievalMessageInBrief ==
    (Ended /\ state.plan /= None /\ state.fetched_content = None) =>
        /\ state.error /= None
        /\ state.final_brief /= None
        /\ "error" \in DOMAIN state.final_brief[1].metadata
        /\ state.final_brief[1].metadata.error =
               "No content could be fetched from search results"
        /\ Len(state.final_brief[1].references) = 1
        /\ state.final_brief[1].references[1].relevance_score = 0

----------------------------------------------------------------------------
(* C5 *)

ModelNodes ==
    {"context_summarizer", "planner", "per_source_summarizer", "synthesizer"}

\* the step being taken made an invoke call with this kind of result
NewInvoke(kind) ==
    \E i \in 1..Len(NewCalls) :
        NewCalls[i].op = "invoke" /\ NewCalls[i].result.kind = kind

\* the step being taken found the model construction raising
ConstructionRaised ==
    NewCalls /= <<>> /\ Last(NewCalls) = Call(pc, "create", Raised)

\* the step being taken got a value from invoke that its schema rejects
NewInvalidValue ==
    /\ NewCalls /= <<>>
    /\ Last(NewCalls).op = "invoke"
    /\ Last(NewCalls).result.kind = "value"
    /\ \/ pc = "planner" /\ ~ResearchPlanValid(Last(NewCalls).result.value)
       \/ pc = "synthesizer" /\ ~FinalBriefValid(Last(NewCalls).result.value)

----------------------------------------------------------------------------
(* C6 *)

\* C6: a stage whose invoke call raises does not write error; it stores its
\* fallback value and the run goes on to the next node of the graph.
C6_InvokeFailureFallsBack ==
    [][NewInvoke("raise") =>
        /\ state'.error = state.error
        /\ pc = "context_summarizer" =>
               /\ state'.context_summary = Some(ContextSummaryFallback(state))
               /\ pc' = "planner"
        /\ pc = "planner" =>
               /\ state'.plan = Some(PlanFallback(state))
               /\ pc' = "search_and_fetch"
        /\ pc = "per_source_summarizer" =>
               /\ state'.summaries /= None
               /\ \A i \in 1..Len(state.fetched_content[1]) :
                      NewCalls[i + 1].result.kind = "raise" =>
                          state'.summaries[1][i] =
                              SourceFallback(state.fetched_content[1][i])
               /\ pc' = IF state.error = None THEN "synthesizer"
                        ELSE "error_handler"
        /\ pc = "synthesizer" =>
               /\ state'.final_brief = Some(BriefFallback(state))
               /\ pc' = "__end__"]_vars

\* a finished run in which the invoke call of every model stage raised
C6_Witness ==
    /\ Ended
    /\ \A node \in ModelNodes : Invokes(node) = <<Raised>>
    /\ state.error = None
    /\ state.final_brief /= None

----------------------------------------------------------------------------
(* C7 *)

\* C7: once error is set it is never reset to None, and a run in which it is
\* set before the routing after per_source_summarizer goes to error_handler
\* and ends there.
C7_ErrorIsSticky ==
    [][state.error /= None =>
        /\ state'.error /= None
        /\ pc' /= "synthesizer"
        /\ pc = "per_source_summarizer" => pc' = "error_handler"
        /\ pc = "error_handler" =>
               pc' = "__end__" /\ Last(executed') = "error_handler"]_vars

\* error set by context_summarizer survived three working stages
C7_Witness ==
    /\ Ended
    /\ state.error = Some("Context summarization failed: " \o ConstructionError)
    /\ state.plan /= None
    /\ state.summaries /= None
    /\ Last(executed) = "error_handler"

----------------------------------------------------------------------------
(* C8 *)

\* C8: whenever summaries were produced there is one per fetched source.
C8_CountPreserving ==
    state.summaries /= None =>
        /\ state.fetched_content /= None
        /\ Len(state.summaries[1]) = Len(state.fetched_content[1])

\* two sources, the first degraded and the second on the invocation fallback
C8_Witness ==
    /\ state.summaries /= None
    /\ Len(state.summaries[1]) = 2
    /\ state.summaries[1][1].relevance_score = 0
    /\ state.summaries[1][2].relevance_score = 70

----------------------------------------------------------------------------
(* C9 *)

\* C9: each source is summarized on its own: a source whose invoke raised has
\* the invocation fallback (0.7, three key points, "web page"), a source that
\* hit another exception the degraded one (0.0, "Error processing source"),
\* every other source the summary the model returned, and no failure keeps
\* the other sources from being summarized.
C9_SourcesIndependent ==
    LET invs == Invokes("per_source_summarizer")
    IN  invs /= <<>> =>
          /\ state.summaries /= None
          /\ Len(invs) = Len(state.fetched_content[1])
          /\ Len(invs) = Len(state.summaries[1])
          /\ \A i \in 1..Len(invs) :
                 LET x == state.summaries[1][i]
                 IN  CASE invs[i].kind = "raise" ->
                            /\ x.relevance_score = 70
                            /\ Len(x.key_points) = 3
                            /\ x.source_type = "web page"
                       [] invs[i].kind = "value"
                          /\ SourceSummaryValid(invs[i].value) ->
                            x = invs[i].value
                       [] OTHER ->
                            /\ x.relevance_score = 0
                            /\ x.key_points = <<"Error processing source">>

\* of two sources the first failed at invoke and the second kept the model's summary
C9_Witness ==
    LET invs == Invokes("per_source_summarizer")
    IN  /\ Len(invs) = 2
        /\ invs[1].kind = "raise"
        /\ invs[2].kind = "value"
        /\ state.summaries /= None
        /\ state.summaries[1][1].relevance_score = 70
        /\ state.summaries[1][2] = invs[2].value

----------------------------------------------------------------------------
(* C10 *)

\* C10: the i-th summary carries the url of the i-th fetched source.
C10_UrlPreserved ==
    state.summaries /= None =>
        \A i \in 1..Len(state.summaries[1]) :
            state.summaries[1][i].url = state.fetched_content[1][i].url

----------------------------------------------------------------------------
(* C11 *)

\* s is an initial part of t
IsPrefix(s, t) == Len(s) <= Len(t) /\ SubSeq(t, 1, Len(s)) = s

\* the two orders in which the stages before the terminal one run
StageOrders ==
    { <<"planner", "search_and_fetch", "per_source_summarizer">>,
      <<"context_summarizer", "planner", "search_and_fetch",
        "per_source_summarizer">> }

\* C11: the nodes run one after another in the order [context_summarizer,]
\* planner, search_and_fetch, per_source_summarizer, one terminal node, each
\* at most once, context_summarizer exactly when the entry edge routes to it;
\* a finished run of a non-follow-up request with no error set has run exactly
\* planner, search_and_fetch, per_source_summarizer, synthesizer.
C11_FixedStageOrder ==
    /\ \E order \in StageOrders, last \in TerminalNodes :
           /\ IsPrefix(executed, Append(order, last))
           /\ executed /= <<>> =>
                  (order[1] = "context_summarizer"
                       <=> state.is_follow_up /\ state.history /= <<>>)
    /\ \A i, j \in 1..Len(executed) : executed[i] = executed[j] => i = j
    /\ (Ended /\ ~state.is_follow_up /\ state.error = None) =>
           executed = <<"planner", "search_and_fetch",
                        "per_source_summarizer", "synthesizer">>

\* a finished, error-free run of a non-follow-up request that has a history
C11_Witness ==
    /\ Ended
    /\ ~state.is_follow_up
    /\ state.history /= <<>>
    /\ state.error = None
    /\ executed = <<"planner", "search_and_fetch",
                    "per_source_summarizer", "synthesizer">>

----------------------------------------------------------------------------
(* C12 *)

\* C12: a stored plan, from the model or from the fallback, has at least one
\* query and expected_sources within 1..15; a model result without queries or
\* with expected_sources outside 1..15 is never stored as the plan.
C12_StoredPlanValid ==
    /\ state.plan /= None => ResearchPlanValid(state.plan[1])
    /\ \A i \in 1..Len(Invokes("planner")) :
           LET inv == Invokes("planner")[i]
           IN  (inv.kind = "value" /\ ~ResearchPlanValid(inv.value)) =>
                   state.plan = None

\* the model's plan was stored
C12_Witness ==
    /\ Invokes("planner") /= <<>>
    /\ Invokes("planner")[1].kind = "value"
    /\ state.plan = Some(Invokes("planner")[1].value)

----------------------------------------------------------------------------
(* C13 *)

\* C13: when the planning invocation fails (it raises, or returns nothing to
\* take queries from) the stored plan has the queries
\* "<topic> research", "<topic> analysis", "<topic> trends", the topic as its
\* only focus area, and expected_sources 3, 5 or 8 for shallow, moderate or
\* deep, for every topic and depth.
C13_FallbackPlanTable ==
    (Invokes("planner") /= <<>>
         /\ Invokes("planner")[1].kind \in {"raise", "null"}) =>
        /\ state.plan /= None
        /\ state.plan[1].queries =
               << state.topic \o " research", state.topic \o " analysis",
                  state.topic \o " trends" >>
        /\ state.plan[1].focus_areas = <<state.topic>>
        /\ state.depth = "shallow" => state.plan[1].expected_sources = 3
        /\ state.depth = "moderate" => state.plan[1].expected_sources = 5
        /\ state.depth = "deep" => state.plan[1].expected_sources = 8
        /\ state.plan[1].expected_sources \in 1..15

\* the fallback plan of a deep request
C13_Witness ==
    /\ Invokes("planner") = <<Raised>>
    /\ state.depth = "deep"
    /\ state.plan /= None
    /\ state.plan[1].expected_sources = 8

----------------------------------------------------------------------------
(* C14 *)

\* the invoke call of context_summarizer raised
ContextInvokeRaised == Invokes("context_summarizer") = <<Raised>>

\* the fallback context: the topics of all history entries in order, all their
\* insights in one list, no preferences, the fixed note
ContextFromWholeHistory ==
    /\ state.context_summary /= None
    /\ LET c == state.context_summary[1]
           h == state.history
       IN  /\ Len(c.previous_topics) = Len(h)
           /\ \A i \in 1..Len(h) : c.previous_topics[i] = h[i].topic
           /\ c.key_findings = Flatten([i \in 1..Len(h) |-> h[i].key_insights])
           /\ c.user_preferences = <<>>
           /\ c.continuity_notes = "Previous research context available"

\* search_and_fetch returned at least one source and per_source_summarizer ran
SourcesSummarized ==
    /\ state.fetched_content /= None
    /\ Ran("per_source_summarizer")

PerSourceConstructionRaised ==
    \E i \in 1..Len(llm_calls) :
        llm_calls[i] = Call("per_source_summarizer", "create", Raised)

----------------------------------------------------------------------------
(* C15 *)

\* a relevance score between 0.0 and 1.0
ScoreInRange(x) == x.relevance_score \in 0..100

\* C15: every summary in summaries and every reference of the final brief has
\* a relevance score within [0.0, 1.0]: a model summary outside the range is
\* not stored, the per-source fallbacks carry 0.7 and 0.0, and the reference
\* of the error brief carries 0.0.
C15_RelevanceInRange ==
    /\ state.summaries /= None =>
           \A i \in 1..Len(state.summaries[1]) :
               LET x == state.summaries[1][i]
                   inv == Invokes("per_source_summarizer")[i]
               IN  /\ ScoreInRange(x)
                   /\ inv.kind = "raise" => x.relevance_score = 70
                   /\ inv.kind = "null" => x.relevance_score = 0
                   /\ (inv.kind = "value" /\ ~ScoreInRange(inv.value)) =>
                          x /= inv.value /\ x.relevance_score = 0
    /\ state.final_brief /= None =>
           /\ \A i \in 1..Len(state.final_brief[1].references) :
                  ScoreInRange(state.final_brief[1].references[i])
           /\ Ran("error_handler") =>
                  state.final_brief[1].references[1].relevance_score = 0
    /\ \A i \in 1..Len(Invokes("synthesizer")) :
           LET inv == Invokes("synthesizer")[i]
           IN  (inv.kind = "value"
                  /\ \E j \in 1..Len(inv.value.references) :
                         ~ScoreInRange(inv.value.references[j])) =>
                   state.final_brief = None

\* the model scored a source 1.5 and the summary stored for it carries 0.0
C15_Witness ==
    /\ state.summaries /= None
    /\ \E i \in 1..Len(state.summaries[1]) :
           /\ Invokes("per_source_summarizer")[i].kind = "value"
           /\ Invokes("per_source_summarizer")[i].value.relevance_score = 150
           /\ state.summaries[1][i].relevance_score = 0

----------------------------------------------------------------------------
(* C16 *)

\* the invoke call of synthesizer raised
SynthesisInvokeRaised == Invokes("synthesizer") = <<Raised>>

\* C16: when the synthesis invocation fails, the brief stored has the whole
\* summaries list as its references, metadata.source_count equal to the length
\* of that list, the topic of the state and the context_summary of the state
\* as context_used.
C16_FallbackBriefCitesAll ==
    SynthesisInvokeRaised =>
        /\ state.final_brief /= None
        /\ state.final_brief[1].references = state.summaries[1]
        /\ state.final_brief[1].metadata.source_count = Len(state.summaries[1])
        /\ state.final_brief[1].topic = state.topic
        /\ state.final_brief[1].context_used = state.context_summary

\* a fallback brief over two summaries, one of them degraded, with a context
C16_Witness ==
    /\ SynthesisInvokeRaised
    /\ state.final_brief /= None
    /\ Len(state.final_brief[1].references) = 2
    /\ state.final_brief[1].references[1].relevance_score = 0
    /\ state.context_summary /= None

----------------------------------------------------------------------------
(* C17 *)

\* C17: a step of error_handler with error = e makes no collaborator call,
\* touches neither error nor the search results, and stores a brief whose
\* metadata is exactly {"error": e}, whose executive summary contains e, that
\* has three key insights and as references one placeholder of source_type
\* "error" and relevance 0.0; the brief is determined by e and the topic alone.
C17_ErrorBriefContent ==
    [][pc = "error_handler" =>
        /\ state.error /= None
        /\ NewCalls = <<>>
        /\ state'.error = state.error
        /\ state'.search_results = state.search_results
        /\ state'.fetched_content = state.fetched_content
        /\ state'.final_brief /= None
        /\ LET e == state.error[1]
               b == state'.final_brief[1]
           IN  /\ b.metadata = [error |-> e]
               /\ Contains(b.executive_summary, e)
               /\ Len(b.key_insights) = 3
               /\ Len(b.references) = 1
               /\ b.references[1].source_type = "error"
               /\ b.references[1].relevance_score = 0
               /\ state'.final_brief =
                      error_handler([topic |-> state.topic,
                                     error |-> state.error]).final_brief
        /\ pc' = "__end__"]_vars

\* an error brief reporting that the model of per_source_summarizer was unavailable
C17_Witness ==
    /\ Ended
    /\ Last(executed) = "error_handler"
    /\ state.final_brief /= None
    /\ state.final_brief[1].metadata =
           [error |-> "Per-source summarization failed: " \o ConstructionError]

----------------------------------------------------------------------------
(* C18 *)

\* every model call of the run returned a value its schema accepts, and
\* search_and_fetch returned n sources
AllSucceeded(n) ==
    /\ Invokes("planner") /= <<>>
    /\ Invokes("planner")[1].kind = "value"
    /\ state.plan = Some(Invokes("planner")[1].value)
    /\ state.fetched_content /= None
    /\ Len(state.fetched_content[1]) = n
    /\ Len(Invokes("per_source_summarizer")) = n
    /\ \A i \in 1..n :
           /\ Invokes("per_source_summarizer")[i].kind = "value"
           /\ SourceSummaryValid(Invokes("per_source_summarizer")[i].value)
    /\ Invokes("synthesizer") /= <<>>
    /\ Invokes("synthesizer")[1].kind = "value"
    /\ FinalBriefValid(Invokes("synthesizer")[1].value)

\* C18: a first request (no follow-up, empty history) for which planning,
\* the search with 3 valid sources, all three summarizations and synthesis
\* succeed ends with a brief that has exactly 3 references, no "error" key
\* in its metadata, and an executive summary of at least 50 characters.
C18_ThreeSourcesThreeReferences ==
    (Ended /\ ~state.is_follow_up /\ state.history = <<>> /\ AllSucceeded(3)) =>
        /\ state.final_brief /= None
        /\ Len(state.final_brief[1].references) = 3
        /\ "error" \notin DOMAIN state.final_brief[1].metadata
        /\ Len(state.final_brief[1].executive_summary) >= 50

----------------------------------------------------------------------------
(* C19 *)

----------------------------------------------------------------------------
(* C20 *)

\* the state of the runs that differ from this one in execution_metadata only
Twins == {[state EXCEPT !.execution_metadata = m] : m \in ExecutionMetadatas}

\* what a list of collaborator calls did, the tracing config of each aside
CallsMade(calls) ==
    [i \in 1..Len(calls) |-> <<calls[i].node, calls[i].op, calls[i].result>>]

\* two results of a node: the same update and the same calls
SameOutcome(a, b) ==
    a.update = b.update /\ CallsMade(a.calls) = CallsMade(b.calls)

\* C20: a run and a run that differs from it in execution_metadata only, given
\* the same collaborator outcomes, stay in step: at every point both routing
\* predicates choose the same node and the node about to run returns the same
\* update (plan, summaries, error, final brief) after the same calls; the
\* routing predicates read is_follow_up, history and error only.
C20_MetadataNeverSteers ==
    /\ \A twin \in Twins :
           /\ should_summarize_context(twin) = should_summarize_context(state)
           /\ should_continue_after_error(twin) = should_continue_after_error(state)
           /\ pc = "context_summarizer" =>
                  \A create \in CreateOutcomes :
                  \A inv \in InvokeResults(create, ModelContextSummaries) :
                      SameOutcome(context_summarizer(twin, create, inv),
                                  context_summarizer(state, create, inv))
           /\ pc = "planner" =>
                  \A create \in CreateOutcomes :
                  \A inv \in InvokeResults(create, ModelPlans) :
                      SameOutcome(planner(twin, create, inv),
                                  planner(state, create, inv))
           /\ pc = "search_and_fetch" =>
                  \A responses \in ResponsesFor(IF state.plan = None THEN 0
                                                 ELSE Len(state.plan[1].queries)) :
                      search_and_fetch(twin, responses) =
                          search_and_fetch(state, responses)
           /\ pc = "per_source_summarizer" =>
                  LET n == IF state.fetched_content = None THEN 0
                           ELSE Len(state.fetched_content[1])
                  IN  \A create \in CreateOutcomes :
                      \A invs \in [1..n -> InvokeResults(create, ModelSummaries)] :
                          SameOutcome(per_source_summarizer(twin, create, invs),
                                      per_source_summarizer(state, create, invs))
           /\ pc = "synthesizer" =>
                  \A create \in CreateOutcomes :
                  \A inv \in InvokeResults(create, ModelBriefsFor(state)) :
                      SameOutcome(synthesizer(twin, create, inv),
                                  synthesizer(state, create, inv))
           /\ pc = "error_handler" => error_handler(twin) = error_handler(state)
    /\ should_summarize_context(state) =
           should_summarize_context([is_follow_up |-> state.is_follow_up,
                                     history |-> state.history])
    /\ should_continue_after_error(state) =
           should_continue_after_error([error |-> state.error])

\* a finished run whose trace id went out with the planning call
C20_Witness ==
    /\ Ended
    /\ state.final_brief /= None
    /\ state.execution_metadata /= <<>>
    /\ \E i \in 1..Len(llm_calls) :
           /\ llm_calls[i].node = "planner"
           /\ llm_calls[i].op = "invoke"
           /\ llm_calls[i].config.metadata.trace_id =
                  state.execution_metadata.trace_id

----------------------------------------------------------------------------
(* C21 *)

\* search_and_fetch has just run without a plan
RetrievalRanWithoutPlan ==
    /\ executed /= <<>>
    /\ Last(executed) = "search_and_fetch"
    /\ state.plan = None

\* the catch-all handler of planner ended its step: the model construction
\* raised, or the value returned failed validation
PlannerCaughtAll ==
    \/ \E i \in 1..Len(llm_calls) : llm_calls[i] = Call("planner", "create", Raised)
    \/ \E i \in 1..Len(Invokes("planner")) :
           /\ Invokes("planner")[i].kind = "value"
           /\ ~ResearchPlanValid(Invokes("planner")[i].value)

----------------------------------------------------------------------------
(* C22 *)

\* C22: a query whose search call raises is not taken again and adds nothing
\* to the result; the loop goes on to the query after it, so that every query
\* of the plan is searched once, in order; what earlier queries added stays.
C22_RaisingQuerySkipped ==
    [][/\ (pc = "search_tool" /\ pc' = "search_tool") =>
              /\ search_calls' = Append(search_calls, state.queries[state.next])
              /\ state'.next = state.next + 1
              /\ IsPrefix(state.all_results, state'.all_results)
              /\ Last(state'.outcomes) = "raise" =>
                     state'.all_results = state.all_results
       /\ pc' = "returned" =>
              /\ search_calls = state.queries
              /\ state'.all_results = state.all_results]_vars

\* of three queries the second raised; the first and the third each gave a source
C22_Witness ==
    /\ pc = "returned"
    /\ state.outcomes = <<"results", "raise", "results">>
    /\ Len(search_calls) = 3
    /\ Len(state.all_results) = 2
    /\ state.seen = 2

----------------------------------------------------------------------------
(* C23 *)

\* s begins with t
StartsWith(s, t) == Len(s) >= Len(t) /\ SubSeq(s, 1, Len(t)) = t

\* a url with scheme http or https, a host, and none of the blocked markers
WellFormedUrl(u) ==
    /\ \E prefix \in {"http://", "https://"} :
           /\ StartsWith(u, prefix)
           /\ Len(u) > Len(prefix)
           /\ SubSeq(u, Len(prefix) + 1, Len(prefix) + 1) /= "/"
    /\ \A marker \in {"javascript:", "data:", "file:", "ftp:"} :
           ~Contains(u, marker)

\* C23: every source the search tool returns has more than 20 words of
\* content and a valid url (scheme http or https, a host, no javascript:,
\* data:, file: or ftp: marker); a hit of 20 words or fewer or with an invalid
\* url is never among them.
C23_OnlyUsableSourcesKept ==
    pc \in {"search_tool", "returned"} =>
        \A i \in 1..Len(state.all_results) :
            LET x == state.all_results[i]
            IN  /\ WordCount(x.content) > 20
                /\ x.word_count = WordCount(x.content)
                /\ WellFormedUrl(x.url)
                /\ x.url \notin {"https://c.example/three", "ftp://d.example/four",
                                 "https://e.example/data:set", "https:///six", ""}

\* two result dicts were looked at and one of them was kept
C23_Witness ==
    /\ pc = "returned"
    /\ state.seen = 2
    /\ Len(state.all_results) = 1

----------------------------------------------------------------------------
(* C24 *)

\* the handler has answered the request
Responded == pc \in {"responded", "done"}

----------------------------------------------------------------------------
(* C25 *)

\* C25: a run that is cancelled while a collaborator call is outstanding is
\* answered with a brief that reports the error, and nothing of it is stored.
C25_CancelledRunGetsErrorBrief ==
    pc = "cancelled" =>
        /\ state.response /= None
        /\ state.response[1].kind = "BriefResponse"
        /\ "error" \in DOMAIN state.response[1].brief.metadata
        /\ state.background_tasks = <<>>

----------------------------------------------------------------------------
(* C26 *)

\* C26: when two runs overlap, the metrics of each hold only what that run
\* wrote: every duration, every token usage and the end time in them come
\* from the run they were made for, and once a run has answered, the duration
\* of each of its recording stages is in its own metrics.
C26_MetricsOfOwnRunOnly ==
    \A r \in Runs :
        state.heap[r] /= None =>
            LET m == state.heap[r][1]
                times == m.node_execution_times.items
            IN  /\ \A i \in 1..Len(times) : times[i][2].run = r
                /\ \A i \in 1..Len(m.token_usage) : m.token_usage[i].run = r
                /\ m.end_time \in {None, Some(r)}
                /\ pc[r] = "done" =>
                       \A i \in 1..Len(executed[r]) :
                           executed[r][i] \in MetricNodes =>
                               Lookup(m.node_execution_times, executed[r][i])
                                   = Some([run |-> r])

----------------------------------------------------------------------------
(* C27 *)

\* C27: save_brief is requested at most once for a request, in the step that
\* follows the last stage of a run that streamed a final brief, and for that
\* brief; the briefs table changes only when that request is carried out
\* after the response, by the one row of that brief; a request whose run
\* raised, was cancelled or ended without a brief asks for no save.
C27_SaveOnlyAfterRunWithBrief ==
    [][/\ Len(state'.background_tasks) <= 1
       /\ state'.background_tasks /= state.background_tasks =>
              /\ state.background_tasks = <<>>
              /\ state.next = "__end__"
              /\ Last(executed) \in TerminalNodes
              /\ state.raised = None
              /\ state.final_brief /= None
              /\ state'.background_tasks =
                     <<[func |-> "save_brief", user_id |-> state.request.user_id,
                        brief |-> state.final_brief]>>
       /\ state'.store /= state.store =>
              /\ pc = "responded"
              /\ pc' = "done"
              /\ state.background_tasks /= <<>>
              /\ state'.store = save_brief(state.store, state.request.user_id,
                                           state.final_brief[1])
       /\ (state'.raised /= None \/ (pc' = "responded" /\ state'.final_brief = None)) =>
              state'.background_tasks = <<>>]_vars

\* the brief of the run was stored after the response
C27_Witness ==
    /\ pc = "done"
    /\ state.final_brief /= None
    /\ state.store /= <<>>
    /\ Last(state.store).brief_data = model_dump_json(state.final_brief[1])

----------------------------------------------------------------------------
(* C28 *)

\* the ids of the rows the entries of a history were read from
HistoryIds(history) ==
    [i \in 1..Len(history) |-> Lookup(history[i], "id")[1]]

\* C28: the history handed to the graph lists the stored briefs of the user
\* oldest first, and when more than 3 are stored the entries Context Recall
\* takes are the 3 stored last.
C28_HistoryMostRecentLast ==
    pc = "astream" =>
        LET g == state.graph[1]
            ids == HistoryIds(g.history)
            n == Len(state.store)
        IN  /\ \A i, j \in 1..Len(ids) : i < j => ids[i] < ids[j]
            /\ n > 3 => HistoryIds(history_slice(g)) = <<n - 2, n - 1, n>>

----------------------------------------------------------------------------
(* C29 *)

----------------------------------------------------------------------------
(* C30 *)

\* the error texts a brief may have to report
ErrorTexts ==
    {"", "x", "No research plan available",
     "Final synthesis failed: " \o ValidationError}

\* C30: the executive summary of every FinalBrief a run stores has at least
\* 50 characters; the fallback brief of synthesis passes the validation of
\* FinalBrief for every topic, the empty one included, and any number of
\* sources; the summary text of the Error-Terminal brief has at least 50
\* characters for every error text, the empty one included, and the brief
\* error_handler builds passes the validation (for an empty error text it
\* builds none).
C30_SummaryFloor ==
    /\ state.final_brief /= None =>
           Len(state.final_brief[1].executive_summary) >= 50
    /\ pc = "__start__" =>
           /\ \A t \in Topics \cup {""}, n \in 1..MaxSources :
                  LET b == BriefFallback(
                               [topic |-> t,
                                summaries |-> Some([i \in 1..n |->
                                    SourceDegraded([url |-> "", title |-> ""], "")]),
                                context_summary |-> None])
                  IN  /\ Len(b.executive_summary) >= 50
                      /\ FinalBriefValid(b)
           /\ \A t \in Topics \cup {""}, e \in ErrorTexts :
                  LET update == error_handler([topic |-> t, error |-> Some(e)])
                  IN  /\ Len(error_summary(e)) >= 50
                      /\ IF e = "" THEN update = <<>>
                         ELSE /\ update.final_brief[1].executive_summary
                                     = error_summary(e)
                              /\ FinalBriefValid(update.final_brief[1])

\* a run ended with the fallback brief of synthesis as its final brief
C30_Witness ==
    /\ Ended
    /\ Last(executed) = "synthesizer"
    /\ state.final_brief = Some(BriefFallback(state))
    /\ Len(state.final_brief[1].executive_summary) >= 50

----------------------------------------------------------------------------
\* a delete request of the user was just answered with success
DeleteSucceeded(user_id) ==
    /\ pc = "delete_user_data"
    /\ state.response /= None
    /\ state.response[1].status_code = 200
    /\ state.response[1].user_id = user_id

\* C31: after delete_user_data(user) reports success the user's brief
\* history and the user's conversation history are both empty, and the
\* other users' data is as it was.  Violated in its second part: the
\* statements delete from briefs and from users, and the conversations of
\* the user stay.
C31_DeleteLeavesNoUserData ==
    \A user_id \in Users :
        DeleteSucceeded(user_id) =>
            /\ get_user_history(state.briefs, user_id, 5) = <<>>
            /\ get_conversation_history(state.conversations, user_id, 20) = <<>>

----------------------------------------------------------------------------
(* C33 *)

\* retrieval ran with a plan and kept no source
ZeroSources ==
    /\ Ran("search_and_fetch")
    /\ state.plan /= None
    /\ state.fetched_content = None

\* the fields of the state that hold what the stages produce
OutputFields ==
    {"context_summary", "plan", "search_results", "fetched_content",
     "summaries", "final_brief"}

\* C33: when retrieval ends with zero usable sources error is set, and from
\* then to the end of the run no step invokes the model, per-source
\* summarization makes no call and stores no summaries, synthesis does not
\* run, and the only step that stores an output is the one of error_handler.
C33_ZeroSourcesStopNormalFlow ==
    /\ [](ZeroSources => state.error /= None)
    /\ [][ZeroSources =>
             /\ \A i \in 1..Len(NewCalls) : NewCalls[i].op /= "invoke"
             /\ Last(executed') = "per_source_summarizer" => NewCalls = <<>>
             /\ state'.summaries = None
             /\ Last(executed') /= "synthesizer"
             /\ (\E f \in OutputFields : state'[f] /= state[f]) =>
                    Last(executed') = "error_handler"]_vars

\* a run that kept no source and ended in the error brief
C33_Witness ==
    /\ Ended
    /\ ZeroSources
    /\ executed = <<"planner", "search_and_fetch", "per_source_summarizer",
                    "error_handler">>
    /\ state.summaries = None
    /\ state.final_brief /= None
    /\ \A i \in 1..Len(llm_calls) : llm_calls[i].node = "planner"

----------------------------------------------------------------------------
(* C34 *)

\* len(fetched_content) of the run
FetchedCount ==
    IF state.fetched_content = None THEN 0 ELSE Len(state.fetched_content[1])

\* the invoke calls of the run
AllInvokes == SelectSeq(llm_calls, LAMBDA c : c.op = "invoke")

\* C34: no invocation is issued again: in one run context_summarizer, planner
\* and synthesizer invoke the model at most once each, per_source_summarizer
\* at most once for each fetched source, error_handler never, so a run makes
\* at most 3 + len(fetched_content) invocations.
C34_NoInvocationReissued ==
    /\ Len(Invokes("context_summarizer")) <= 1
    /\ Len(Invokes("planner")) <= 1
    /\ Len(Invokes("per_source_summarizer")) <= FetchedCount
    /\ Len(Invokes("synthesizer")) <= 1
    /\ Invokes("error_handler") = <<>>
    /\ \A i \in 1..Len(AllInvokes) : AllInvokes[i].node \in ModelNodes
    /\ Len(AllInvokes) <= 3 + FetchedCount

\* a run in which every invocation raised: one each for context recall,
\* planning and synthesis, and one for each of two sources
C34_Witness ==
    /\ Ended
    /\ FetchedCount = 2
    /\ Invokes("context_summarizer") = <<Raised>>
    /\ Invokes("planner") = <<Raised>>
    /\ Invokes("per_source_summarizer") = <<Raised, Raised>>
    /\ Invokes("synthesizer") = <<Raised>>
    /\ Len(AllInvokes) = 3 + FetchedCount

----------------------------------------------------------------------------
(* C35 *)

\* the fields of the state that carry the request
RequestFields ==
    {"topic", "user_id", "depth", "is_follow_up", "additional_context",
     "history"}

\* the fields whose value the step being taken changes
Changed == {f \in DOMAIN state : state'[f] /= state[f]}

\* C35: no step changes a request field of the state, and the step of a
\* stage changes only what that stage produces: context_summarizer the
\* context_summary or the error, planner the plan or the error,
\* search_and_fetch search_results and fetched_content (which it leaves
\* equal) or the error, per_source_summarizer the summaries or the error,
\* synthesizer the final_brief or the error, error_handler the final_brief.
C35_StagesWriteOwnOutputs ==
    [][/\ DOMAIN state' = DOMAIN state
       /\ Changed \cap RequestFields = {}
       /\ executed' = executed => Changed = {}
       /\ executed' /= executed =>
              LET node == Last(executed')
              IN  CASE node = "context_summarizer" ->
                         Changed \subseteq {"context_summary"}
                         \/ Changed \subseteq {"error"}
                    [] node = "planner" ->
                         Changed \subseteq {"plan"} \/ Changed \subseteq {"error"}
                    [] node = "search_and_fetch" ->
                         \/ /\ Changed \subseteq {"search_results", "fetched_content"}
                            /\ state'.search_results = state'.fetched_content
                         \/ Changed \subseteq {"error"}
                    [] node = "per_source_summarizer" ->
                         Changed \subseteq {"summaries"}
                         \/ Changed \subseteq {"error"}
                    [] node = "synthesizer" ->
                         Changed \subseteq {"final_brief"}
                         \/ Changed \subseteq {"error"}
                    [] node = "error_handler" ->
                         Changed \subseteq {"final_brief"}
                    [] OTHER -> FALSE]_vars

\* a follow-up run in which every stage stored its output
C35_Witness ==
    /\ Ended
    /\ executed = <<"context_summarizer", "planner", "search_and_fetch",
                    "per_source_summarizer", "synthesizer">>
    /\ state.context_summary /= None
    /\ state.plan /= None
    /\ state.fetched_content /= None
    /\ state.search_results = state.fetched_content
    /\ state.summaries /= None
    /\ state.final_brief /= None
    /\ state.error = None
    /\ state.history /= <<>>
    /\ state.user_id = "user-1"

----------------------------------------------------------------------------
(* C36 *)

\* the error of the state is one that synthesizer writes
SynthesisWroteError ==
    /\ Last(executed) = "synthesizer"
    /\ state.error /= None
    /\ \/ state.error[1] = "No summaries available for synthesis"
       \/ StartsWith(state.error[1], "Final synthesis failed: ")

\* C36: no run ends silently: when a run has ended, final_brief or error is
\* set; final_brief is unset only when synthesizer wrote the error; and when
\* error_handler ran, error and final_brief are both set and the brief's
\* metadata["error"] is the error of the state.
C36_NeverEndsSilently ==
    Ended =>
        /\ state.final_brief /= None \/ state.error /= None
        /\ state.final_brief = None => SynthesisWroteError
        /\ Ran("error_handler") =>
               /\ state.error /= None
               /\ state.final_brief /= None
               /\ "error" \in DOMAIN state.final_brief[1].metadata
               /\ state.final_brief[1].metadata.error = state.error[1]

\* a run that ended without a brief because the model of synthesizer could
\* not be built
C36_Witness ==
    /\ Ended
    /\ state.final_brief = None
    /\ state.error = Some("Final synthesis failed: " \o ConstructionError)
    /\ Last(executed) = "synthesizer"

----------------------------------------------------------------------------
(* C32 *)

\* the body being handled has a topic of fewer than 5 characters
ShortTopic ==
    /\ Lookup(state.body, "topic") /= None
    /\ Len(Lookup(state.body, "topic")[1]) < 5

\* the body being handled has a topic of 5 or more characters and a user id
WellFormedBody ==
    /\ Lookup(state.body, "topic") /= None
    /\ Len(Lookup(state.body, "topic")[1]) >= 5
    /\ Lookup(state.body, "user_id") /= None

----------------------------------------------------------------------------
(* C37 *)

\* the caller's first request was answered with a brief of error_handler,
\* and the follow-up request being handled read its history when the save of
\* that brief had run
FollowUpAfterErrorBrief ==
    /\ state.follows
    /\ state.delivered /= None
    /\ "error" \in DOMAIN state.delivered[1].metadata
    /\ state.request /= None
    /\ state.request.follow_up
    /\ state.graph /= None
    /\ state.graph[1].history /= <<>>

\* C37: a brief of error_handler is saved and read back like any other, so
\* the follow-up request of the user gets it as a history entry, and
\* context_summarizer takes its topic and insights: it does not fail on the
\* entry, and the summary it builds when the invocation raises lists the
\* topic and the insights of the error brief.
C37_ErrorBriefRecalled ==
    (FollowUpAfterErrorBrief /\ Ran("context_summarizer")) =>
        LET g == state.graph[1]
            brief == state.delivered[1]
        IN  /\ Len(g.history) = 1
            /\ FinalBrief(g.history[1]) = Some(brief)
            /\ g.error /= Some("Context summarization failed: " \o AttributeError)
            /\ Invokes("context_summarizer") = <<Raised>> =>
                   /\ g.context_summary /= None
                   /\ g.context_summary[1].previous_topics = <<brief.topic>>
                   /\ g.context_summary[1].key_findings = brief.key_insights

----------------------------------------------------------------------------
(* C38 *)

\* C38: a brief the caller was answered with is in the history that the
\* caller's next request reads.
C38_DeliveredBriefInHistory ==
    (state.follows /\ state.delivered /= None /\ state.graph /= None) =>
        \E i \in 1..Len(state.graph[1].history) :
            FinalBrief(state.graph[1].history[i]) = Some(state.delivered[1])

====
